---- MODULE Spec2Model ----
(***************************************************************************)
(* State-machine model of the LinkedIn outreach tool: the SQLite target    *)
(* store and daily counters (db.py), the CLI orchestrator (main.py), the   *)
(* Playwright bot's decision logic (linkedin_bot.py) and the web worker    *)
(* (web/worker.py, web/dashboard.py).  The platform (LinkedIn) is the      *)
(* environment: per profile it holds the relationship the page shows and   *)
(* how many invitations and messages it has received.                      *)
(***************************************************************************)
EXTENDS Integers, Sequences, FiniteSets, TLC

\* ------------------------------------------------------------------ bounds
NumUrls       == 2   \* profile URLs that exist (url ids 1..NumUrls)
StartBelowCap == 1   \* today's counters start this far below their caps
MaxCrashes    == 1   \* process kills injected into CLI invocations
NumCallers    == 2   \* processes calling increment_daily_counter concurrently
MaxCalls      == 2   \* calls of increment_daily_counter per such process
MaxDay        == 2   \* the calendar date runs from day 1 to this day
MaxNameLen    == 4   \* first names have 1..MaxNameLen characters
MaxTailLen    == 3   \* characters of a template after its placeholder
NearLimit     == 6   \* template heads reach from this far below the note limit
NumRequestThreads == 2   \* request threads of the web server inside start_job
MaxWorkerThreads  == 3   \* Thread objects start_job creates
NumRuns           == 3   \* CLI processes running at the same time on one store
MaxRunTargets     == 2   \* targets in the batch of such a process
RunsBelowCap      == 2   \* how far below the caps today's counters are at first

\* ------------------------------------------------------- program constants
DAILY_CONNECTION_CAP == 20
DAILY_MESSAGE_CAP    == 50
NOTE_LIMIT           == 300   \* LinkedIn's limit on a connection note
NOTE_KEPT            == 297   \* characters kept in front of the "..."

STATUS_PENDING      == "pending"
STATUS_REQUEST_SENT == "request_sent"
STATUS_CONNECTED    == "connected"
STATUS_MESSAGED     == "messaged"
STATUS_SKIPPED      == "skipped"
STATUS_ERROR        == "error"

COUNTER_CONNECTIONS == "connections_sent"
COUNTER_MESSAGES    == "messages_sent"

NULL == "<null>"          \* Python None / SQL NULL
Raised == "<exception>"   \* the bot call raised instead of returning a status

Urls == 1..NumUrls

\* Input files of a CLI invocation (read_spreadsheet keeps duplicates): the
\* prefixes of the list of all URLs, and one file that repeats a URL.
AllUrls == [k \in 1..NumUrls |-> k]
Files == {SubSeq(AllUrls, 1, n) : n \in 0..NumUrls} \cup {<<1, 1>>}

\* --cap values (any int): 0 (the parser's default, no override), a negative
\* one, one below and one above the configured caps.
CapOverrides == {0, -1, 1, 25}

VARIABLES
    deployment,      \* which entry point runs: "cli" (main.py) or "web" (app.py)
    \* --- persistent store (progress.db)
    profiles,        \* rows of table profiles, in id order
    daily_counters,  \* rows of table daily_counters: date -> counters
    \* --- environment
    today,           \* date.today()
    platform,        \* per URL: what LinkedIn shows and has received
    crashes,         \* process kills so far
    \* --- CLI process (main.py)
    pc,              \* position of the CLI process
    mode, dry_run, cap, file,   \* parsed arguments
    batch,           \* `pending` / `candidates`: URLs fetched for this run
    i,               \* loop index (1-based position in batch)
    status,          \* value returned by the bot for the current target
    obs,             \* what the bot observed and did on the current target
    processed, sent, skipped, errors, still_pending,
    interrupted,     \* module global _interrupted
    interrupt_seen,  \* a loop of this invocation has logged "Interrupted by user"
    bot,             \* browser session: "none" | "open" | "closed"
    summaryPrinted,  \* print_session_summary was called in this run
    expiredAt,       \* loop index at which visit_profile hit the login wall
    \* --- web application (web/models.py, web/worker.py)
    job,             \* the Job row
    jobProfiles,     \* the JobProfile rows of the job, in id order
    wpc,             \* position of the worker thread ("none": never started)
    wbatch,          \* `profiles`: indices of the rows fetched by the worker
    wi,              \* worker loop index (1-based position in wbatch)
    wbot,            \* the worker's browser session: "none" | "open" | "closed"
    cancel_requested, \* dashboard.cancel has answered "Job cancellation
                     \* requested." since the worker thread was started
    \* --- direct use of the Database class (db.py)
    last_call,       \* the last method called directly (on the store, on the
                     \* bot) and what it returned
    callers,         \* concurrent callers of increment_daily_counter, each with
                     \* its own connection, and SQLite's write lock
    server,          \* the web server process seen from start_job: its request
                     \* threads, _running_jobs and the worker threads
    runs             \* CLI processes running at the same time on one store:
                     \* where each is in its loop, and how many status writes
                     \* for a sent invite or message they have committed

storeVars == <<profiles, daily_counters>>
argVars   == <<mode, dry_run, cap, file>>
statVars  == <<processed, sent, skipped, errors, still_pending>>
loopVars  == <<batch, i, status, obs>>
cliVars   == <<pc, argVars, loopVars, statVars, interrupted, interrupt_seen, bot,
               summaryPrinted, expiredAt>>
webVars   == <<job, jobProfiles, wpc, wbatch, wi, wbot, cancel_requested>>
vars      == <<deployment, storeVars, today, platform, crashes, cliVars, webVars, last_call,
               callers, server, runs>>

\* ------------------------------------------------------------ helpers
Truthy(x) == x # NULL /\ x # ""

HasUrl(profs, url) == \E k \in 1..Len(profs) : profs[k].url = url

Row(profs, url) == profs[CHOOSE k \in 1..Len(profs) : profs[k].url = url]

\* The first n elements of s (SQL LIMIT n).
Take(s, n) == SubSeq(s, 1, IF n < Len(s) THEN n ELSE Len(s))

\* ------------------------------------------------------------ db.py
\* Faulty variant of import_urls: no UNIQUE constraint, every URL is inserted.
import_urls_appends_all(profs, urls) ==
    [profiles |-> profs \o [k \in 1..Len(urls) |->
                     [url |-> urls[k], name |-> NULL, status |-> STATUS_PENDING,
                      error_msg |-> NULL]],
     imported |-> Len(urls), skipped |-> 0, total |-> Len(urls)]

\* Faulty variant of import_urls: INSERT OR REPLACE, a stored URL is put back
\* to a fresh pending row.
import_urls_replaces(profs, urls) ==
    LET idx   == [k \in 1..Len(urls) |-> k]
        first == SelectSeq(idx, LAMBDA k : /\ ~HasUrl(profs, urls[k])
                                           /\ \A j \in 1..(k - 1) : urls[j] # urls[k])
        fresh(u) == [url |-> u, name |-> NULL, status |-> STATUS_PENDING,
                     error_msg |-> NULL]
        given == {urls[k] : k \in 1..Len(urls)}
    IN  [profiles |-> [k \in 1..Len(profs) |->
                          IF profs[k].url \in given THEN fresh(profs[k].url)
                          ELSE profs[k]]
                      \o [k \in 1..Len(first) |-> fresh(urls[first[k]])],
         imported |-> Len(first), skipped |-> Len(urls) - Len(first),
         total |-> Len(urls)]

\* import_urls: INSERT each URL as pending; a UNIQUE violation is counted as
\* skipped.  Returns the new table and the counts.
RECURSIVE import_urls(_, _)
import_urls(profs, urls) ==
    IF urls = <<>>
    THEN [profiles |-> profs, imported |-> 0, skipped |-> 0, total |-> 0]
    ELSE LET url  == Head(urls)
             dup  == HasUrl(profs, url)
             row  == [url |-> url, name |-> NULL, status |-> STATUS_PENDING,
                      error_msg |-> NULL]
             rest == import_urls(IF dup THEN profs ELSE Append(profs, row), Tail(urls))
         IN  [profiles |-> rest.profiles,
              imported |-> rest.imported + (IF dup THEN 0 ELSE 1),
              skipped  |-> rest.skipped + (IF dup THEN 1 ELSE 0),
              total    |-> rest.total + 1]

\* Faulty variant of get_profiles_by_status: LIMIT is applied for limit 0 too.
get_profiles_by_status_limit_zero(profs, st, limit) ==
    LET rows == SelectSeq(profs, LAMBDA r : r.status = st)
        urls == [k \in 1..Len(rows) |-> rows[k].url]
    IN  IF limit >= 0 THEN Take(urls, limit) ELSE urls

\* get_profiles_by_status: rows with the status, ORDER BY id, LIMIT only
\* when limit > 0.  Returned as the list of their URLs.
get_profiles_by_status(profs, st, limit) ==
    LET rows == SelectSeq(profs, LAMBDA r : r.status = st)
        urls == [k \in 1..Len(rows) |-> rows[k].url]
    IN  IF limit > 0 THEN Take(urls, limit) ELSE urls

get_pending_profiles(profs, limit) ==
    get_profiles_by_status(profs, STATUS_PENDING, limit)

\* Faulty variant of get_accepted_profiles: selects on the wrong status.
get_accepted_profiles_pending(profs, limit) ==
    get_profiles_by_status(profs, STATUS_PENDING, limit)

get_accepted_profiles(profs, limit) ==
    get_profiles_by_status(profs, STATUS_REQUEST_SENT, limit)

\* update_status: UPDATE ... WHERE url = ?; name and error_msg are written
\* only when truthy; an unknown URL updates no row and raises nothing.
update_status(profs, url, st, name, error_msg) ==
    [k \in 1..Len(profs) |->
        IF profs[k].url # url THEN profs[k]
        ELSE [url       |-> url,
              status    |-> st,
              name      |-> IF Truthy(name) THEN name ELSE profs[k].name,
              error_msg |-> IF Truthy(error_msg) THEN error_msg
                            ELSE profs[k].error_msg]]

\* Faulty variant of reset_errors: error_msg is not cleared.
reset_errors_keeps_message(profs) ==
    [k \in 1..Len(profs) |->
        IF profs[k].status = STATUS_ERROR
        THEN [profs[k] EXCEPT !.status = STATUS_PENDING]
        ELSE profs[k]]

\* reset_errors: every error row back to pending with error_msg NULL.
reset_errors(profs) ==
    [k \in 1..Len(profs) |->
        IF profs[k].status = STATUS_ERROR
        THEN [profs[k] EXCEPT !.status = STATUS_PENDING, !.error_msg = NULL]
        ELSE profs[k]]

\* Faulty variant of reset_errors_count: the UPDATE also matches pending rows.
reset_errors_count_pending_too(profs) ==
    Cardinality({k \in 1..Len(profs) :
                    profs[k].status \in {STATUS_ERROR, STATUS_PENDING}})

\* cursor.rowcount of the UPDATE in reset_errors.
reset_errors_count(profs) ==
    Cardinality({k \in 1..Len(profs) : profs[k].status = STATUS_ERROR})

ZeroRow == [connections_sent |-> 0, messages_sent |-> 0]

\* Faulty variant of ensure_daily_row: INSERT OR REPLACE, an existing row
\* is put back to zero.
ensure_daily_row_replaces(counters, day) ==
    [d \in DOMAIN counters \cup {day} |->
        IF d = day THEN ZeroRow ELSE counters[d]]

\* _ensure_daily_row: INSERT OR IGNORE today's row.
ensure_daily_row(counters, day) ==
    IF day \in DOMAIN counters THEN counters
    ELSE [d \in DOMAIN counters \cup {day} |->
            IF d = day THEN ZeroRow ELSE counters[d]]

\* Faulty variant of increment_daily_counter: the counter is raised twice.
increment_daily_counter_twice(counters, day, counter_type) ==
    LET c == ensure_daily_row(counters, day)
    IN  [c EXCEPT ![day][counter_type] = @ + 2]

\* increment_daily_counter: ensure the row, then UPDATE ... + 1 WHERE date.
increment_daily_counter(counters, day, counter_type) ==
    LET c == ensure_daily_row(counters, day)
    IN  [c EXCEPT ![day][counter_type] = @ + 1]

get_daily_count(counters, day, counter_type) ==
    IF day \in DOMAIN counters THEN counters[day][counter_type] ELSE 0

\* Faulty variant of is_daily_cap_reached: strict comparison (one more
\* action is let through at the cap).
is_daily_cap_reached_strict(counters, day, counter_type) ==
    IF counter_type = COUNTER_CONNECTIONS
    THEN get_daily_count(counters, day, counter_type) > DAILY_CONNECTION_CAP
    ELSE get_daily_count(counters, day, counter_type) > DAILY_MESSAGE_CAP

\* is_daily_cap_reached compares with the configured cap, never the override.
is_daily_cap_reached(counters, day, counter_type) ==
    IF counter_type = COUNTER_CONNECTIONS
    THEN get_daily_count(counters, day, counter_type) >= DAILY_CONNECTION_CAP
    ELSE get_daily_count(counters, day, counter_type) >= DAILY_MESSAGE_CAP

\* ------------------------------------------------------------ linkedin_bot.py
\* Outcome of visit_profile's navigation.
NavOutcomes == {"ok", "not_found", "expired", "nav_error"}

\* _detect_connection_state: the states it can return for what the platform
\* shows.  A Pending or Message button is always recognised; a profile that
\* is neither shows Connect directly, or in the More menu, or not at all
\* (follow-only profile, or no selector matched).
detect_connection_state(rel) ==
    CASE rel = "connected" -> {"already_connected"}
      [] rel = "pending"   -> {"already_pending"}
      [] OTHER             -> {"connect_visible", "connect_in_more", "no_connect_button"}

\* What can happen once send_connection_request goes on to click Connect:
\* the invitation is sent; a click/modal step fails; the weekly-limit
\* warning is shown (LinkedInCapReachedError).
InviteOutcomes == {"sent", "failed", "cap_reached"}

\* Status string returned by send_connection_request.
send_connection_request(nav, state, outcome) ==
    IF nav # "ok" THEN STATUS_ERROR
    ELSE CASE state = "already_connected" -> "already_connected"
           [] state = "already_pending"   -> "already_pending"
           [] state = "no_connect_button" -> STATUS_SKIPPED
           [] OTHER -> CASE outcome = "sent"        -> STATUS_REQUEST_SENT
                         [] outcome = "cap_reached" -> "cap_reached"
                         [] OTHER                   -> STATUS_ERROR

\* send_connection_request reaches the Connect click (performs the invite
\* action) exactly for a reachable profile with a Connect option.
invite_attempted(nav, state) ==
    nav = "ok" /\ state \in {"connect_visible", "connect_in_more"}

\* Status string returned by dry_run_connection.
dry_run_connection(nav, state) ==
    IF nav # "ok" THEN STATUS_ERROR
    ELSE CASE state \in {"connect_visible", "connect_in_more"} -> STATUS_REQUEST_SENT
           [] state = "already_connected" -> "already_connected"
           [] state = "already_pending"   -> "already_pending"
           [] OTHER                       -> STATUS_SKIPPED

\* Is the "Message {first_name}" button visible: the profile is a connection
\* and the name was extracted (otherwise first_name is "there").
message_button_visible(rel, name_found) == rel = "connected" /\ name_found

MessageOutcomes == {"sent", "failed"}

\* Status string returned by send_followup_message.
send_followup_message(nav, visible, outcome) ==
    IF nav # "ok" THEN STATUS_ERROR
    ELSE IF ~visible THEN "not_connected"
    ELSE IF outcome = "sent" THEN STATUS_MESSAGED ELSE STATUS_ERROR

message_attempted(nav, visible) == nav = "ok" /\ visible

\* Status string returned by dry_run_message.
dry_run_message(nav, visible) ==
    IF nav # "ok" THEN STATUS_ERROR
    ELSE IF visible THEN STATUS_MESSAGED ELSE "not_connected"

\* ------------------------------------------------------------ main.py
NoObs == [nav |-> NULL, state |-> NULL, attempted |-> FALSE]

\* No method of the store has been called directly.
NoCall == [op |-> "none", repeated |-> FALSE]

\* Processes that use the store at the same time (each holds its own
\* Database and sqlite3 connection), and the days the clock can show.
Callers == 1..NumCallers
Days    == 1..MaxDay

\* increment_daily_counter is called with a valid counter type or not.
CounterTypes == {COUNTER_CONNECTIONS, COUNTER_MESSAGES}
CounterArgs  == CounterTypes \cup {"invalid_type"}

\* A caller outside the method: `day` and `upd_day` are the dates read by
\* _ensure_daily_row and by increment_daily_counter itself.
IdleCaller == [pc |-> "idle", type |-> NULL, day |-> 0, upd_day |-> 0, calls |-> 0]

\* Nobody is inside increment_daily_counter; the write lock is free.  `done`
\* counts, per date and counter type, the calls that have returned;
\* `straddled` tells whether the date changed inside one of them.
NoCallers ==
    [lock |-> 0,
     proc |-> [p \in Callers |-> IdleCaller],
     done |-> [d \in Days |-> [t \in CounterTypes |-> 0]],
     straddled |-> FALSE]

\* Request threads of the server (gunicorn.conf.py: threads) and the
\* Thread objects start_job can create.
RequestThreads == 1..NumRequestThreads
WorkerThreads  == 1..MaxWorkerThreads

\* No request is inside start_job, _running_jobs has no entry for the job
\* (0), no Thread has been created.
NoStarts ==
    [req      |-> [r \in RequestThreads |-> [pc |-> "idle", t |-> 0]],
     registry |-> 0,
     thread   |-> [t \in WorkerThreads |-> "none"]]

\* Everything but the record of direct library calls.
\* The concurrent CLI processes before any has started.
Runs == 1..NumRuns

IdleRun == [pc |-> "idle", type |-> NULL, left |-> 0, at |-> NULL]

NoRuns == [proc |-> [r \in Runs |-> IdleRun],
           written |-> [t \in {COUNTER_CONNECTIONS, COUNTER_MESSAGES} |-> 0]]

InitProgramFrom(belows) ==
    /\ deployment \in {"cli", "web"}
    /\ profiles = <<>>
    \* Earlier activity today, on profiles that are final by now, has brought
    \* today's counters close to the caps, or up to them.
    /\ \E below \in belows :
         /\ deployment = "web" => below = StartBelowCap
         /\ daily_counters = [d \in {1} |->
                [connections_sent |-> DAILY_CONNECTION_CAP - below,
                 messages_sent    |-> DAILY_MESSAGE_CAP - below]]
    /\ today = 1
    \* Nobody has been invited or messaged yet; the first person of an
    \* uploaded web job may be a connection of the user already.
    /\ \E rel1 \in {"connectable", "connected"} :
         /\ deployment = "cli" => rel1 = "connectable"
         /\ platform = [u \in Urls |->
                          [rel |-> IF u = 1 THEN rel1 ELSE "connectable",
                           invites |-> 0, messages |-> 0]]
    /\ crashes = 0
    /\ pc = "idle"
    /\ mode = "connect" /\ dry_run = FALSE /\ cap = 0 /\ file = <<>>
    /\ batch = <<>> /\ i = 0 /\ status = NULL /\ obs = NoObs
    /\ processed = 0 /\ sent = 0 /\ skipped = 0 /\ errors = 0 /\ still_pending = 0
    /\ interrupted = FALSE
    /\ interrupt_seen = FALSE
    /\ bot = "none"
    /\ summaryPrinted = FALSE
    /\ expiredAt = 0
    \* web: an uploaded job (dashboard.upload) with one pending row per URL
    /\ job \in [mode : {"connect", "message", "both"}, status : {"pending"},
                total_profiles : {NumUrls}, processed : {0}, sent : {0},
                skipped : {0}, errors : {0}]
    /\ deployment = "cli" => job.mode = "connect"
    /\ jobProfiles = [k \in 1..NumUrls |->
                        [url |-> k, status |-> "pending", error_msg |-> NULL]]
    /\ wpc = "none" /\ wbatch = <<>> /\ wi = 0 /\ wbot = "none"
    /\ cancel_requested = FALSE
    /\ callers = NoCallers
    /\ server = NoStarts
    /\ runs = NoRuns

\* The state after construction, today's counters at the caps or just below.
InitProgram == InitProgramFrom({0, StartBelowCap})

Init ==
    /\ InitProgram
    /\ last_call = NoCall

\* No process: arguments, module globals and locals at their initial values.
FreshProcess ==
    /\ mode' = "connect" /\ dry_run' = FALSE /\ cap' = 0 /\ file' = <<>>
    /\ batch' = <<>> /\ i' = 0 /\ status' = NULL /\ obs' = NoObs
    /\ processed' = 0 /\ sent' = 0 /\ skipped' = 0 /\ errors' = 0
    /\ still_pending' = 0
    /\ interrupted' = FALSE
    /\ interrupt_seen' = FALSE
    /\ bot' = "none"
    /\ summaryPrinted' = FALSE
    /\ expiredAt' = 0

\* main(): parse the arguments and dispatch on --mode.
Main(m, d, c, f) ==
    /\ pc = "idle"
    /\ deployment = "cli"
    /\ UNCHANGED <<deployment, webVars, callers, server, runs, last_call, interrupt_seen>>
    /\ mode' = m /\ dry_run' = d /\ cap' = c /\ file' = f
    /\ pc' = IF m = "message" THEN "m_begin" ELSE "c_begin"
    /\ UNCHANGED <<storeVars, today, platform, crashes, loopVars, statVars,
                   interrupted, bot, summaryPrinted, expiredAt>>

\* main() with --reset-errors.
MainResetErrors ==
    /\ pc = "idle"
    /\ deployment = "cli"
    /\ UNCHANGED <<deployment, webVars, callers, server, runs, last_call>>
    /\ profiles' = reset_errors(profiles)
    /\ UNCHANGED <<daily_counters, today, platform, crashes, cliVars>>

\* daily_cap = cap if cap > 0 else the configured default.
effective_cap(c, default) == IF c > 0 THEN c ELSE default

\* Where control goes when run_connect returns: mode both goes on to
\* run_message, otherwise main() returns.
connect_return(m) == IF m = "both" THEN "m_begin" ELSE "exit"

\* run_connect up to the construction of the bot: reset the interrupt flag,
\* read the file, import, check the cap, fetch the batch, load the template.
RunConnectBegin ==
    /\ pc = "c_begin"
    /\ UNCHANGED <<deployment, webVars, callers, server, runs, last_call, interrupt_seen>>
    /\ interrupted' = FALSE
    /\ IF file = <<>>
       THEN /\ pc' = connect_return(mode)
            /\ UNCHANGED <<profiles, batch, i, statVars>>
       ELSE LET imp       == import_urls(profiles, file)
                daily_cap == effective_cap(cap, DAILY_CONNECTION_CAP)
                reached   == is_daily_cap_reached(daily_counters, today, COUNTER_CONNECTIONS)
                remaining == daily_cap - get_daily_count(daily_counters, today, COUNTER_CONNECTIONS)
                pending   == get_pending_profiles(imp.profiles, remaining)
            IN  /\ profiles' = imp.profiles
                /\ IF reached \/ pending = <<>>
                   THEN /\ pc' = connect_return(mode)
                        /\ UNCHANGED <<batch, i, statVars>>
                   ELSE \E template_exists \in BOOLEAN :
                        IF ~template_exists
                        THEN /\ pc' = connect_return(mode)
                             /\ UNCHANGED <<batch, i, statVars>>
                        ELSE /\ pc' = "c_start"
                             /\ batch' = pending
                             /\ i' = 0
                             /\ processed' = 0 /\ sent' = 0 /\ skipped' = 0
                             /\ errors' = 0
                             /\ UNCHANGED still_pending
    \* file_path and cap are dead in run_connect from here on; main() passes
    \* them again to run_message in mode both.
    /\ file' = IF mode = "both" THEN file ELSE <<>>
    /\ cap' = IF mode = "both" THEN cap ELSE 0
    /\ UNCHANGED <<daily_counters, today, platform, crashes, mode, dry_run, status, obs,
                   bot, summaryPrinted, expiredAt>>

\* bot.start() / bot.login() and the exits around them.  The result tells
\* whether the loop is entered, the state the browser is left in and whether
\* print_session_summary is reached.
SessionResults == {"restored", "login_ok", "login_failed", "start_raises"}

\* Faulty variant of start_session: the login-failure return neither closes
\* the bot itself nor passes through the finally clause.
start_session_leaks(r) ==
    CASE r \in {"restored", "login_ok"} ->
            [enter |-> TRUE, bot |-> "open", summary |-> FALSE]
      [] r = "login_failed" ->
            [enter |-> FALSE, bot |-> "open", summary |-> FALSE]
      [] OTHER ->
            [enter |-> FALSE, bot |-> "closed", summary |-> TRUE]

start_session(r) ==
    CASE r \in {"restored", "login_ok"} ->
            [enter |-> TRUE, bot |-> "open", summary |-> FALSE]
      [] r = "login_failed" ->   \* bot.close(); db.close(); return (then finally)
            [enter |-> FALSE, bot |-> "closed", summary |-> FALSE]
      [] OTHER ->                \* except Exception; finally bot.close(); summary
            [enter |-> FALSE, bot |-> "closed", summary |-> TRUE]

ConnectStartSession ==
    /\ pc = "c_start"
    /\ UNCHANGED <<deployment, webVars, callers, server, runs, last_call, interrupt_seen>>
    /\ \E r \in SessionResults :
         LET s == start_session(r)
         IN  /\ bot' = s.bot
             /\ summaryPrinted' = s.summary
             /\ pc' = IF s.enter THEN "c_loop" ELSE connect_return(mode)
             /\ i' = IF s.enter THEN 1 ELSE i
    /\ UNCHANGED <<storeVars, today, platform, crashes, argVars, batch,
                   status, obs, statVars, interrupted, expiredAt>>

\* Faulty variant of loop_continues: the interrupt flag is not looked at.
loop_continues_ignores_interrupt(k, n, intr, reached) == k <= n /\ ~reached

\* Head of the for loop: end of batch, then the interrupt flag, then the cap.
loop_continues(k, n, intr, reached) == k <= n /\ ~intr /\ ~reached

ConnectLoopHead ==
    /\ pc = "c_loop"
    /\ UNCHANGED <<deployment, webVars, callers, server, runs, last_call>>
    /\ pc' = IF loop_continues(i, Len(batch), interrupted,
                  is_daily_cap_reached(daily_counters, today, COUNTER_CONNECTIONS))
             THEN "c_act" ELSE "c_finish"
    /\ interrupt_seen' = (interrupt_seen \/ (i <= Len(batch) /\ interrupted))
    /\ UNCHANGED <<storeVars, today, platform, crashes, argVars, loopVars, statVars,
                   interrupted, bot, summaryPrinted, expiredAt>>

\* The platform after an invitation was sent to url.
perform_invite(plat, url) ==
    [plat EXCEPT ![url].rel = "pending", ![url].invites = @ + 1]

\* The platform after a message was sent to url.
perform_message(plat, url) ==
    [plat EXCEPT ![url].messages = @ + 1]

\* Faulty variant of connect_call: the dry-run flag is ignored.
connect_call_ignores_dry(dry, nav, state, outcome) ==
    [status |-> send_connection_request(nav, state, outcome),
     attempted |-> invite_attempted(nav, state)]

\* Which bot entry point run_connect calls: the status it returns and
\* whether the call reaches the invite action.
connect_call(dry, nav, state, outcome) ==
    IF dry
    THEN [status |-> dry_run_connection(nav, state), attempted |-> FALSE]
    ELSE [status |-> send_connection_request(nav, state, outcome),
          attempted |-> invite_attempted(nav, state)]

\* The bot call of one iteration of run_connect.  Either the call raises, or
\* it returns a status after navigating, observing and (real run) acting.
ConnectAct ==
    /\ pc = "c_act"
    /\ UNCHANGED <<deployment, webVars, callers, server, runs, last_call, interrupt_seen>>
    /\ \/ /\ status' = Raised
          /\ obs' = [nav |-> "raise", state |-> NULL, attempted |-> FALSE]
          /\ UNCHANGED <<platform, expiredAt>>
       \/ \E nav \in NavOutcomes, outcome \in InviteOutcomes :
          \E state \in detect_connection_state(platform[batch[i]].rel) :
            LET call == connect_call(dry_run, nav, state, outcome)
            IN  /\ status' = call.status
                /\ obs' = [nav |-> nav,
                           state |-> IF nav = "ok" THEN state ELSE NULL,
                           attempted |-> call.attempted]
                /\ platform' = IF call.attempted /\ outcome = "sent"
                               THEN perform_invite(platform, batch[i])
                               ELSE platform
                /\ expiredAt' = IF nav = "expired" /\ expiredAt = 0 THEN i
                                ELSE expiredAt
    /\ pc' = "c_record"
    /\ UNCHANGED <<storeVars, today, crashes, argVars, batch, i, statVars,
                   interrupted, bot, summaryPrinted>>

\* The if/elif chain of run_connect on the returned status, and its except
\* branch: the status written (NULL: no write), whether the scraped name is
\* passed, the error message, the counter increment, the break, the tallies.
Branch(write, name, err, incr, brk, s, k, e, p) ==
    [write |-> write, name |-> name, err |-> err, incr |-> incr, brk |-> brk,
     sent |-> s, skipped |-> k, errors |-> e, processed |-> p,
     still_pending |-> 0]

\* Faulty variant of connect_branch: the target of the rate-limit stop is
\* tallied as skipped (but not as processed).
connect_branch_counts_cap(st) ==
    CASE st = STATUS_REQUEST_SENT ->
            Branch(STATUS_REQUEST_SENT, TRUE, NULL, TRUE, FALSE, 1, 0, 0, 1)
      [] st = "already_connected" ->
            Branch(STATUS_CONNECTED, TRUE, NULL, FALSE, FALSE, 0, 1, 0, 1)
      [] st = "already_pending" ->
            Branch(STATUS_REQUEST_SENT, FALSE, NULL, FALSE, FALSE, 0, 1, 0, 1)
      [] st = STATUS_SKIPPED ->
            Branch(STATUS_SKIPPED, FALSE, NULL, FALSE, FALSE, 0, 1, 0, 1)
      [] st = "cap_reached" ->
            Branch(STATUS_PENDING, FALSE, NULL, FALSE, TRUE, 0, 1, 0, 0)
      [] st = Raised ->
            Branch(STATUS_ERROR, FALSE, "exception text", FALSE, FALSE, 0, 0, 1, 1)
      [] OTHER ->
            Branch(STATUS_ERROR, FALSE, "Status: " \o st, FALSE, FALSE, 0, 0, 1, 1)

\* Faulty variant of connect_branch: cap_reached falls through to the else
\* branch (recorded as an error, no break).
connect_branch_cap_as_error(st) ==
    CASE st = STATUS_REQUEST_SENT ->
            Branch(STATUS_REQUEST_SENT, TRUE, NULL, TRUE, FALSE, 1, 0, 0, 1)
      [] st = "already_connected" ->
            Branch(STATUS_CONNECTED, TRUE, NULL, FALSE, FALSE, 0, 1, 0, 1)
      [] st = "already_pending" ->
            Branch(STATUS_REQUEST_SENT, FALSE, NULL, FALSE, FALSE, 0, 1, 0, 1)
      [] st = STATUS_SKIPPED ->
            Branch(STATUS_SKIPPED, FALSE, NULL, FALSE, FALSE, 0, 1, 0, 1)
      [] st = Raised ->
            Branch(STATUS_ERROR, FALSE, "exception text", FALSE, FALSE, 0, 0, 1, 1)
      [] OTHER ->
            Branch(STATUS_ERROR, FALSE, "Status: " \o st, FALSE, FALSE, 0, 0, 1, 1)

\* Faulty variant of connect_branch: an error status or an exception ends the
\* loop.
connect_branch_error_stops(st) ==
    CASE st = STATUS_REQUEST_SENT ->
            Branch(STATUS_REQUEST_SENT, TRUE, NULL, TRUE, FALSE, 1, 0, 0, 1)
      [] st = "already_connected" ->
            Branch(STATUS_CONNECTED, TRUE, NULL, FALSE, FALSE, 0, 1, 0, 1)
      [] st = "already_pending" ->
            Branch(STATUS_REQUEST_SENT, FALSE, NULL, FALSE, FALSE, 0, 1, 0, 1)
      [] st = STATUS_SKIPPED ->
            Branch(STATUS_SKIPPED, FALSE, NULL, FALSE, FALSE, 0, 1, 0, 1)
      [] st = "cap_reached" ->
            Branch(STATUS_PENDING, FALSE, NULL, FALSE, TRUE, 0, 0, 0, 0)
      [] st = Raised ->
            Branch(STATUS_ERROR, FALSE, "exception text", FALSE, TRUE, 0, 0, 1, 1)
      [] OTHER ->
            Branch(STATUS_ERROR, FALSE, "Status: " \o st, FALSE, TRUE, 0, 0, 1, 1)

\* Faulty variant of connect_branch: a target found already pending is
\* handled like a request just sent (counted against the daily cap).
connect_branch_pending_counts(st) ==
    CASE st = STATUS_REQUEST_SENT ->
            Branch(STATUS_REQUEST_SENT, TRUE, NULL, TRUE, FALSE, 1, 0, 0, 1)
      [] st = "already_connected" ->
            Branch(STATUS_CONNECTED, TRUE, NULL, FALSE, FALSE, 0, 1, 0, 1)
      [] st = "already_pending" ->
            Branch(STATUS_REQUEST_SENT, FALSE, NULL, TRUE, FALSE, 1, 0, 0, 1)
      [] st = STATUS_SKIPPED ->
            Branch(STATUS_SKIPPED, FALSE, NULL, FALSE, FALSE, 0, 1, 0, 1)
      [] st = "cap_reached" ->
            Branch(STATUS_PENDING, FALSE, NULL, FALSE, TRUE, 0, 0, 0, 0)
      [] st = Raised ->
            Branch(STATUS_ERROR, FALSE, "exception text", FALSE, FALSE, 0, 0, 1, 1)
      [] OTHER ->
            Branch(STATUS_ERROR, FALSE, "Status: " \o st, FALSE, FALSE, 0, 0, 1, 1)

connect_branch(st) ==
    CASE st = STATUS_REQUEST_SENT ->
            Branch(STATUS_REQUEST_SENT, TRUE, NULL, TRUE, FALSE, 1, 0, 0, 1)
      [] st = "already_connected" ->
            Branch(STATUS_CONNECTED, TRUE, NULL, FALSE, FALSE, 0, 1, 0, 1)
      [] st = "already_pending" ->
            Branch(STATUS_REQUEST_SENT, FALSE, NULL, FALSE, FALSE, 0, 1, 0, 1)
      [] st = STATUS_SKIPPED ->
            Branch(STATUS_SKIPPED, FALSE, NULL, FALSE, FALSE, 0, 1, 0, 1)
      [] st = "cap_reached" ->
            Branch(STATUS_PENDING, FALSE, NULL, FALSE, TRUE, 0, 0, 0, 0)
      [] st = Raised ->
            Branch(STATUS_ERROR, FALSE, "exception text", FALSE, FALSE, 0, 0, 1, 1)
      [] OTHER ->
            Branch(STATUS_ERROR, FALSE, "Status: " \o st, FALSE, FALSE, 0, 0, 1, 1)

ConnectRecord ==
    /\ pc = "c_record"
    /\ UNCHANGED <<deployment, webVars, callers, server, runs, last_call, interrupt_seen>>
    /\ LET b == connect_branch(status)
       IN  /\ \E name_info \in {NULL, "name"} :
                profiles' = IF dry_run THEN profiles
                            ELSE update_status(profiles, batch[i], b.write,
                                     IF b.name THEN name_info ELSE NULL, b.err)
           /\ daily_counters' = IF ~dry_run /\ b.incr
                                THEN increment_daily_counter(daily_counters, today,
                                                             COUNTER_CONNECTIONS)
                                ELSE daily_counters
           /\ sent' = sent + b.sent
           /\ skipped' = skipped + b.skipped
           /\ errors' = errors + b.errors
           /\ processed' = processed + b.processed
           /\ pc' = IF b.brk THEN "c_finish" ELSE "c_delay"
    /\ status' = NULL
    /\ obs' = NoObs
    /\ UNCHANGED <<today, platform, crashes, argVars, batch, i,
                   still_pending, interrupted, bot, summaryPrinted, expiredAt>>

\* End of an iteration: advance the progress bar, sleep, next index.
ConnectDelay ==
    /\ pc = "c_delay"
    /\ UNCHANGED <<deployment, webVars, callers, server, runs, last_call, interrupt_seen>>
    /\ i' = i + 1
    /\ pc' = "c_loop"
    /\ UNCHANGED <<storeVars, today, platform, crashes, argVars, batch,
                   status, obs, statVars, interrupted, bot, summaryPrinted, expiredAt>>

\* After the loop: finally bot.close(), print_session_summary, db.close().
ConnectFinish ==
    /\ pc = "c_finish"
    /\ UNCHANGED <<deployment, webVars, callers, server, runs, last_call, interrupt_seen>>
    /\ bot' = "closed"
    /\ summaryPrinted' = TRUE
    /\ pc' = connect_return(mode)
    /\ UNCHANGED <<storeVars, today, platform, crashes, argVars, loopVars, statVars,
                   interrupted, expiredAt>>

\* ------------------------------------------------------------ run_message
\* run_message up to the construction of the bot.
RunMessageBegin ==
    /\ pc = "m_begin"
    /\ UNCHANGED <<deployment, webVars, callers, server, runs, last_call, interrupt_seen>>
    /\ interrupted' = FALSE
    /\ IF file = <<>>
       THEN /\ pc' = "exit"
            /\ UNCHANGED <<profiles, batch, i, statVars>>
       ELSE LET imp        == import_urls(profiles, file)
                daily_cap  == effective_cap(cap, DAILY_MESSAGE_CAP)
                reached    == is_daily_cap_reached(daily_counters, today, COUNTER_MESSAGES)
                remaining  == daily_cap - get_daily_count(daily_counters, today, COUNTER_MESSAGES)
                candidates == get_accepted_profiles(imp.profiles, remaining)
            IN  /\ profiles' = imp.profiles
                /\ IF reached \/ candidates = <<>>
                   THEN /\ pc' = "exit"
                        /\ UNCHANGED <<batch, i, statVars>>
                   ELSE \E template_exists \in BOOLEAN :
                        IF ~template_exists
                        THEN /\ pc' = "exit"
                             /\ UNCHANGED <<batch, i, statVars>>
                        ELSE /\ pc' = "m_start"
                             /\ batch' = candidates
                             /\ i' = 0
                             /\ processed' = 0 /\ sent' = 0 /\ skipped' = 0
                             /\ errors' = 0 /\ still_pending' = 0
    /\ bot' = "none"              \* bot = LinkedInBot(): a new, unstarted bot
    /\ summaryPrinted' = FALSE
    /\ expiredAt' = 0
    /\ file' = <<>>               \* dead from here on
    /\ cap' = 0
    /\ UNCHANGED <<daily_counters, today, platform, crashes, mode, dry_run, status, obs>>

MessageStartSession ==
    /\ pc = "m_start"
    /\ UNCHANGED <<deployment, webVars, callers, server, runs, last_call, interrupt_seen>>
    /\ \E r \in SessionResults :
         LET s == start_session(r)
         IN  /\ bot' = s.bot
             /\ summaryPrinted' = s.summary
             /\ pc' = IF s.enter THEN "m_loop" ELSE "exit"
             /\ i' = IF s.enter THEN 1 ELSE i
    /\ UNCHANGED <<storeVars, today, platform, crashes, argVars, batch,
                   status, obs, statVars, interrupted, expiredAt>>

MessageLoopHead ==
    /\ pc = "m_loop"
    /\ UNCHANGED <<deployment, webVars, callers, server, runs, last_call>>
    /\ pc' = IF loop_continues(i, Len(batch), interrupted,
                  is_daily_cap_reached(daily_counters, today, COUNTER_MESSAGES))
             THEN "m_act" ELSE "m_finish"
    /\ interrupt_seen' = (interrupt_seen \/ (i <= Len(batch) /\ interrupted))
    /\ UNCHANGED <<storeVars, today, platform, crashes, argVars, loopVars, statVars,
                   interrupted, bot, summaryPrinted, expiredAt>>

\* Which bot entry point run_message calls: the status it returns and
\* whether the call reaches the message action.
message_call(dry, nav, visible, outcome) ==
    IF dry
    THEN [status |-> dry_run_message(nav, visible), attempted |-> FALSE]
    ELSE [status |-> send_followup_message(nav, visible, outcome),
          attempted |-> message_attempted(nav, visible)]

\* The bot call of one iteration of run_message.
MessageAct ==
    /\ pc = "m_act"
    /\ UNCHANGED <<deployment, webVars, callers, server, runs, last_call, interrupt_seen>>
    /\ \/ /\ status' = Raised
          /\ obs' = [nav |-> "raise", state |-> NULL, attempted |-> FALSE]
          /\ UNCHANGED <<platform, expiredAt>>
       \/ \E nav \in NavOutcomes, outcome \in MessageOutcomes, name_found \in BOOLEAN :
            LET visible == message_button_visible(platform[batch[i]].rel, name_found)
                call    == message_call(dry_run, nav, visible, outcome)
            IN  /\ status' = call.status
                /\ obs' = [nav |-> nav,
                           state |-> IF nav # "ok" THEN NULL
                                     ELSE IF visible THEN "message_button"
                                     ELSE "no_message_button",
                           attempted |-> call.attempted]
                /\ platform' = IF call.attempted /\ outcome = "sent"
                               THEN perform_message(platform, batch[i])
                               ELSE platform
                /\ expiredAt' = IF nav = "expired" /\ expiredAt = 0 THEN i
                                ELSE expiredAt
    /\ pc' = "m_record"
    /\ UNCHANGED <<storeVars, today, crashes, argVars, batch, i, statVars,
                   interrupted, bot, summaryPrinted>>

\* Faulty variant of message_branch: a target without the Message button is
\* written off as skipped.
message_branch_writes_off(st) ==
    CASE st = STATUS_MESSAGED ->
            Branch(STATUS_MESSAGED, FALSE, NULL, TRUE, FALSE, 1, 0, 0, 1)
      [] st = "not_connected" ->
            Branch(STATUS_SKIPPED, FALSE, NULL, FALSE, FALSE, 0, 1, 0, 1)
      [] st = STATUS_SKIPPED ->
            Branch(STATUS_SKIPPED, FALSE, NULL, FALSE, FALSE, 0, 1, 0, 1)
      [] st = Raised ->
            Branch(STATUS_ERROR, FALSE, "exception text", FALSE, FALSE, 0, 0, 1, 1)
      [] OTHER ->
            Branch(STATUS_ERROR, FALSE, "Message error: " \o st, FALSE, FALSE, 0, 0, 1, 1)

\* The if/elif chain of run_message and its except branch (sent tallies
\* `messaged`).
message_branch(st) ==
    CASE st = STATUS_MESSAGED ->
            Branch(STATUS_MESSAGED, FALSE, NULL, TRUE, FALSE, 1, 0, 0, 1)
      [] st = "not_connected" ->
            [Branch(NULL, FALSE, NULL, FALSE, FALSE, 0, 0, 0, 1)
                EXCEPT !.still_pending = 1]
      [] st = STATUS_SKIPPED ->
            Branch(STATUS_SKIPPED, FALSE, NULL, FALSE, FALSE, 0, 1, 0, 1)
      [] st = Raised ->
            Branch(STATUS_ERROR, FALSE, "exception text", FALSE, FALSE, 0, 0, 1, 1)
      [] OTHER ->
            Branch(STATUS_ERROR, FALSE, "Message error: " \o st, FALSE, FALSE, 0, 0, 1, 1)

MessageRecord ==
    /\ pc = "m_record"
    /\ UNCHANGED <<deployment, webVars, callers, server, runs, last_call, interrupt_seen>>
    /\ LET b == message_branch(status)
       IN  /\ profiles' = IF dry_run \/ b.write = NULL THEN profiles
                          ELSE update_status(profiles, batch[i], b.write, NULL, b.err)
           /\ daily_counters' = IF ~dry_run /\ b.incr
                                THEN increment_daily_counter(daily_counters, today,
                                                             COUNTER_MESSAGES)
                                ELSE daily_counters
           /\ sent' = sent + b.sent
           /\ skipped' = skipped + b.skipped
           /\ errors' = errors + b.errors
           /\ still_pending' = still_pending + b.still_pending
           /\ processed' = processed + b.processed
           /\ pc' = IF b.brk THEN "m_finish" ELSE "m_delay"
    /\ status' = NULL
    /\ obs' = NoObs
    /\ UNCHANGED <<today, platform, crashes, argVars, batch, i,
                   interrupted, bot, summaryPrinted, expiredAt>>

MessageDelay ==
    /\ pc = "m_delay"
    /\ UNCHANGED <<deployment, webVars, callers, server, runs, last_call, interrupt_seen>>
    /\ i' = i + 1
    /\ pc' = "m_loop"
    /\ UNCHANGED <<storeVars, today, platform, crashes, argVars, batch,
                   status, obs, statVars, interrupted, bot, summaryPrinted, expiredAt>>

MessageFinish ==
    /\ pc = "m_finish"
    /\ UNCHANGED <<deployment, webVars, callers, server, runs, last_call, interrupt_seen>>
    /\ bot' = "closed"
    /\ summaryPrinted' = TRUE
    /\ pc' = "exit"
    /\ UNCHANGED <<storeVars, today, platform, crashes, argVars, loopVars, statVars,
                   interrupted, expiredAt>>

\* ------------------------------------------------------------ environment
\* _signal_handler: Ctrl+C while an invocation is running.
SignalHandler ==
    /\ pc # "idle"
    /\ UNCHANGED <<deployment, webVars, callers, server, runs, last_call, interrupt_seen>>
    /\ ~interrupted
    /\ interrupted' = TRUE
    /\ UNCHANGED <<storeVars, today, platform, crashes, pc, argVars, loopVars,
                   statVars, bot, summaryPrinted, expiredAt>>

\* The process is killed: everything in memory is lost, the store and the
\* platform keep what was committed.
Crash ==
    /\ pc # "idle"
    /\ UNCHANGED <<deployment, webVars, callers, server, runs, last_call>>
    /\ crashes < MaxCrashes
    /\ crashes' = crashes + 1
    /\ pc' = "idle"
    /\ FreshProcess
    /\ UNCHANGED <<storeVars, today, platform>>

\* main() has returned: the process exits.
ProcessExit ==
    /\ pc = "exit"
    /\ UNCHANGED <<deployment, webVars, callers, server, runs, last_call>>
    /\ pc' = "idle"
    /\ FreshProcess
    /\ UNCHANGED <<storeVars, today, platform, crashes>>

\* The invited person accepts the invitation.
Accept(u) ==
    /\ platform[u].rel = "pending"
    /\ platform' = [platform EXCEPT ![u].rel = "connected"]
    /\ UNCHANGED <<deployment, storeVars, today, crashes, cliVars, webVars, last_call,
                   callers, server, runs>>

\* ------------------------------------------------------------ web/worker.py
ThreadAlive == wpc \notin {"none", "done"}

cliUnchanged == <<deployment, storeVars, today, crashes, cliVars, last_call, callers, server, runs>>

\* start_job: launch the worker thread unless one is registered and alive.
StartJob ==
    /\ deployment = "web"
    /\ ~ThreadAlive
    /\ wpc' = "w_begin"
    /\ wbatch' = <<>> /\ wi' = 0 /\ wbot' = "none"
    /\ cancel_requested' = FALSE
    /\ UNCHANGED <<cliUnchanged, platform, job, jobProfiles>>

\* A job row that was deleted has status NULL, and so have its profile rows
\* (the cascade); what a worker still holds of them is its copy in memory.
JobExists == job.status # NULL

\* _run_job up to `bot = None`: a job that is not found ends the thread, no
\* stored session fails the job.
WorkerBegin ==
    /\ wpc = "w_begin"
    /\ IF ~JobExists
       THEN /\ wpc' = "done"
            /\ UNCHANGED job
       ELSE \E has_session \in BOOLEAN :
              IF has_session
              THEN /\ job' = [job EXCEPT !.status = "running"]
                   /\ wpc' = "w_launch"
              ELSE /\ job' = [job EXCEPT !.status = "failed"]
                   /\ wpc' = "done"
    /\ UNCHANGED <<cliUnchanged, platform, jobProfiles, wbatch, wi, wbot, cancel_requested>>

\* bot.start(), the login check and the exits around them: the job status
\* written, whether the loop is entered, the state the browser is left in.
WorkerSessionResults == {"logged_in", "expired", "start_raises"}

\* Faulty variant of worker_session: an expired session just ends the job.
worker_session_expired_completes(r) ==
    CASE r = "logged_in" -> [enter |-> TRUE, bot |-> "open", status |-> "running"]
      [] r = "expired"   -> [enter |-> FALSE, bot |-> "closed", status |-> "completed"]
      [] OTHER           -> [enter |-> FALSE, bot |-> "closed", status |-> "failed"]

worker_session(r) ==
    CASE r = "logged_in" -> [enter |-> TRUE, bot |-> "open", status |-> "running"]
      [] r = "expired"   -> [enter |-> FALSE, bot |-> "closed", status |-> "failed"]
      [] OTHER           -> [enter |-> FALSE, bot |-> "closed", status |-> "failed"]

\* The pending rows of the job, as indices into jobProfiles.
pending_job_profiles(rows) ==
    LET idx == [k \in 1..Len(rows) |-> k]
    IN  SelectSeq(idx, LAMBDA k : rows[k].status = "pending")

WorkerLaunch ==
    /\ wpc = "w_launch"
    /\ JobExists
    /\ \E r \in WorkerSessionResults :
         LET s == worker_session(r)
         IN  /\ wbot' = s.bot
             /\ IF s.enter
                THEN /\ wbatch' = pending_job_profiles(jobProfiles)
                     /\ job' = [job EXCEPT !.total_profiles = Len(wbatch')]
                     /\ wi' = 1
                     /\ wpc' = "w_loop"
                ELSE /\ job' = [job EXCEPT !.status = s.status]
                     /\ wpc' = "done"
                     /\ UNCHANGED <<wbatch, wi>>
    /\ UNCHANGED <<cliUnchanged, platform, jobProfiles, cancel_requested>>

\* Head of the worker loop: refresh the job and break when it was cancelled.
WorkerLoopHead ==
    /\ wpc = "w_loop"
    /\ JobExists
    /\ wpc' = IF wi <= Len(wbatch) /\ job.status # "cancelled"
              THEN "w_process" ELSE "w_finish"
    /\ UNCHANGED <<cliUnchanged, platform, job, jobProfiles, wbatch, wi, wbot, cancel_requested>>

\* Tallies of the connect part of an iteration for a returned status.
worker_connect_tally(result) ==
    CASE result = "request_sent" -> [sent |-> 1, skipped |-> 0, errors |-> 0]
      [] result \in {"already_connected", "already_pending", "skipped", "cap_reached"}
                                 -> [sent |-> 0, skipped |-> 1, errors |-> 0]
      [] OTHER                   -> [sent |-> 0, skipped |-> 0, errors |-> 1]

\* Tallies of the message part of an iteration.
worker_message_tally(result) ==
    CASE result = "messaged" -> [sent |-> 1, skipped |-> 0, errors |-> 0]
      [] result = "error"    -> [sent |-> 0, skipped |-> 0, errors |-> 1]
      [] OTHER               -> [sent |-> 0, skipped |-> 1, errors |-> 0]

NoTally == [sent |-> 0, skipped |-> 0, errors |-> 0]

\* One iteration of the worker loop on row k: the connect part, then the
\* message part, their tallies, and the row's status at the end.
WorkerIteration(k, cres, plat1, mres, plat2, messages) ==
    LET ct == IF job.mode \in {"connect", "both"} THEN worker_connect_tally(cres)
              ELSE NoTally
        mt == IF messages THEN worker_message_tally(mres) ELSE NoTally
        st == IF messages THEN mres
              ELSE IF cres = "cap_reached" THEN "skipped" ELSE cres
        brk == job.mode \in {"connect", "both"} /\ cres = "cap_reached"
    IN  /\ jobProfiles' = [jobProfiles EXCEPT ![k].status = st]
        /\ job' = [job EXCEPT !.sent = @ + ct.sent + mt.sent,
                              !.skipped = @ + ct.skipped + mt.skipped,
                              !.errors = @ + ct.errors + mt.errors,
                              !.processed = IF brk THEN @ ELSE @ + 1]
        /\ platform' = IF messages THEN plat2 ELSE plat1
        /\ wpc' = IF brk THEN "w_finish" ELSE "w_loop"
        /\ wi' = IF brk THEN wi ELSE wi + 1

WorkerProcess ==
    /\ wpc = "w_process"
    /\ JobExists
    /\ LET k   == wbatch[wi]
           url == jobProfiles[k].url
       IN  \/ \* the bot call raises: except Exception
              /\ jobProfiles' = [jobProfiles EXCEPT ![k].status = "error",
                                                    ![k].error_msg = "exception text"]
              /\ job' = [job EXCEPT !.errors = @ + 1, !.processed = @ + 1]
              /\ wpc' = "w_loop"
              /\ wi' = wi + 1
              /\ UNCHANGED platform
           \/ \E nav \in NavOutcomes, outcome \in InviteOutcomes,
                 mnav \in NavOutcomes, moutcome \in MessageOutcomes,
                 name_found \in BOOLEAN :
              \E state \in detect_connection_state(platform[url].rel) :
                LET connects == job.mode \in {"connect", "both"}
                    cres     == send_connection_request(nav, state, outcome)
                    plat1    == IF connects /\ invite_attempted(nav, state)
                                   /\ outcome = "sent"
                                THEN perform_invite(platform, url) ELSE platform
                    messages == \/ job.mode = "message"
                                \/ job.mode = "both" /\ cres = "already_connected"
                    visible  == message_button_visible(plat1[url].rel, name_found)
                    mres     == send_followup_message(mnav, visible, moutcome)
                    plat2    == IF message_attempted(mnav, visible) /\ moutcome = "sent"
                                THEN perform_message(plat1, url) ELSE plat1
                IN  WorkerIteration(k, cres, plat1, mres, plat2, messages)
    /\ UNCHANGED <<cliUnchanged, wbatch, wbot, cancel_requested>>

\* After the loop: mark the job completed unless it was cancelled, and
\* commit.
WorkerFinish ==
    /\ wpc = "w_finish"
    /\ JobExists
    /\ job' = IF job.status # "cancelled" THEN [job EXCEPT !.status = "completed"]
              ELSE job
    /\ wpc' = "w_close"
    /\ UNCHANGED <<cliUnchanged, platform, jobProfiles, wbatch, wi, wbot, cancel_requested>>

\* The finally block after the loop: close the browser; the thread returns.
WorkerClose ==
    /\ wpc = "w_close"
    /\ wbot' = "closed"
    /\ wpc' = "done"
    /\ UNCHANGED <<cliUnchanged, platform, job, jobProfiles, wbatch, wi, cancel_requested>>

\* The worker of a job that was deleted under it: the next refresh or commit
\* raises, the handler of that exception raises as well, and the thread
\* ends after the finally block.  A bot call that was under way may have
\* acted on the platform.
WorkerOrphaned ==
    /\ ThreadAlive
    /\ wpc \notin {"w_begin", "w_close"}
    /\ ~JobExists
    /\ wpc' = "done"
    /\ wbot' = IF wbot = "open" THEN "closed" ELSE wbot
    /\ \/ UNCHANGED platform
       \/ /\ wpc = "w_process"
          /\ LET url == jobProfiles[wbatch[wi]].url
             IN  \/ /\ job.mode \in {"connect", "both"}
                    /\ platform[url].rel = "connectable"
                    /\ platform' = perform_invite(platform, url)
                 \/ /\ job.mode = "message"
                    /\ platform[url].rel = "connected"
                    /\ platform' = perform_message(platform, url)
    /\ UNCHANGED <<cliUnchanged, job, jobProfiles, wbatch, wi, cancel_requested>>

\* dashboard.cancel: a running job is marked cancelled.
Cancel ==
    /\ deployment = "web"
    /\ job.status = "running"
    /\ job' = [job EXCEPT !.status = "cancelled"]
    /\ cancel_requested' = TRUE
    /\ UNCHANGED <<cliUnchanged, platform, jobProfiles, wpc, wbatch, wi, wbot>>

\* Faulty variant of reset_job_profiles: skipped rows are retried as well.
reset_job_profiles_resets_skipped(rows) ==
    [k \in 1..Len(rows) |->
        IF rows[k].status \in {"error", "skipped"}
        THEN [rows[k] EXCEPT !.status = "pending", !.error_msg = NULL]
        ELSE rows[k]]

\* The rows of a job after dashboard.start has reset them: error rows are
\* pending again, without their message.
reset_job_profiles(rows) ==
    [k \in 1..Len(rows) |->
        IF rows[k].status = "error"
        THEN [rows[k] EXCEPT !.status = "pending", !.error_msg = NULL]
        ELSE rows[k]]

\* dashboard.start: refused for a running job; a completed, failed or
\* cancelled job is reset and committed.  The call of start_job that follows
\* passes a keyword start_job does not take and raises, so no thread is
\* started from here.
DashboardStart ==
    /\ deployment = "web"
    /\ JobExists
    /\ job.status # "running"
    /\ IF job.status \in {"completed", "failed", "cancelled"}
       THEN /\ job' = [job EXCEPT !.processed = 0, !.sent = 0, !.skipped = 0,
                                  !.errors = 0, !.status = "pending"]
            /\ jobProfiles' = reset_job_profiles(jobProfiles)
       ELSE UNCHANGED <<job, jobProfiles>>
    /\ UNCHANGED <<cliUnchanged, platform, wpc, wbatch, wi, wbot, cancel_requested>>

\* dashboard.delete_job: refused for a running job; otherwise the job and,
\* by the cascade, its profile rows are deleted.
DeleteJob ==
    /\ deployment = "web"
    /\ JobExists
    /\ job.status # "running"
    /\ job' = [job EXCEPT !.status = NULL]
    /\ jobProfiles' = [k \in 1..Len(jobProfiles) |->
                         [jobProfiles[k] EXCEPT !.status = NULL]]
    /\ UNCHANGED <<cliUnchanged, platform, wpc, wbatch, wi, wbot, cancel_requested>>

Next ==
    \/ \E m \in {"connect", "message", "both"}, d \in BOOLEAN,
          c \in CapOverrides, f \in Files : Main(m, d, c, f)
    \/ MainResetErrors
    \/ RunConnectBegin
    \/ ConnectStartSession
    \/ ConnectLoopHead
    \/ ConnectAct
    \/ ConnectRecord
    \/ ConnectDelay
    \/ ConnectFinish
    \/ RunMessageBegin
    \/ MessageStartSession
    \/ MessageLoopHead
    \/ MessageAct
    \/ MessageRecord
    \/ MessageDelay
    \/ MessageFinish
    \/ SignalHandler
    \/ Crash
    \/ ProcessExit
    \/ \E u \in Urls : Accept(u)
    \/ StartJob
    \/ WorkerBegin
    \/ WorkerLaunch
    \/ WorkerLoopHead
    \/ WorkerProcess
    \/ WorkerFinish
    \/ WorkerClose
    \/ WorkerOrphaned
    \/ Cancel
    \/ DashboardStart
    \/ DeleteJob

Spec == Init /\ [][Next]_vars

TypeOK ==
    /\ pc \in {"idle", "exit", "c_begin", "c_start", "c_loop", "c_act", "c_record", "c_delay",
               "c_finish", "m_begin", "m_start", "m_loop", "m_act", "m_record",
               "m_delay", "m_finish"}
    /\ bot \in {"none", "open", "closed"}
    /\ i \in 0..(NumUrls + 1)

\* ------------------------------------------------------------ db.py, used directly
\* The Database class used as a library: any caller, any order of calls.
StatusValues == {STATUS_PENDING, STATUS_REQUEST_SENT, STATUS_CONNECTED,
                 STATUS_MESSAGED, STATUS_SKIPPED, STATUS_ERROR}

\* limit arguments: 0 (no limit) up to one more than there are rows.
Limits == 0..(NumUrls + 1)

storeUnchanged == <<deployment, daily_counters, today, platform, crashes, cliVars, webVars,
                   callers, server, runs>>

\* Does update_status raise: it executes the UPDATE and commits without
\* looking at the row count, and an UPDATE that matches no row is no error.
update_status_raises(profs, url) == FALSE

DbImportUrls(urls) ==
    LET r == import_urls(profiles, urls)
    IN  /\ profiles' = r.profiles
        /\ last_call' = [op |-> "import_urls",
                         repeated |-> last_call.op = "import_urls", urls |-> urls,
                         result |-> [imported |-> r.imported, skipped |-> r.skipped,
                                     total |-> r.total]]
        /\ UNCHANGED storeUnchanged

\* Callers pass an error message only together with STATUS_ERROR.
DbUpdateStatus(url, st, name, error_msg) ==
    /\ Truthy(error_msg) => st = STATUS_ERROR
    /\ profiles' = update_status(profiles, url, st, name, error_msg)
    /\ last_call' = [op |-> "update_status",
                     repeated |-> last_call.op = "update_status", url |-> url,
                     status |-> st, known |-> HasUrl(profiles, url),
                     raised |-> update_status_raises(profiles, url)]
    /\ UNCHANGED storeUnchanged

DbResetErrors ==
    /\ profiles' = reset_errors(profiles)
    /\ last_call' = [op |-> "reset_errors",
                     repeated |-> last_call.op = "reset_errors",
                     result |-> reset_errors_count(profiles)]
    /\ UNCHANGED storeUnchanged

DbGetProfilesByStatus(st, limit) ==
    /\ last_call' = [op |-> "get_profiles_by_status",
                     repeated |-> last_call.op = "get_profiles_by_status",
                     status |-> st, limit |-> limit,
                     result |-> get_profiles_by_status(profiles, st, limit)]
    /\ UNCHANGED <<profiles, storeUnchanged>>

StoreInit ==
    /\ Init
    /\ deployment = "cli"
    /\ get_daily_count(daily_counters, today, COUNTER_CONNECTIONS)
          = DAILY_CONNECTION_CAP - StartBelowCap

StoreNext ==
    \/ \E f \in Files : DbImportUrls(f)
    \/ \E u \in Urls, st \in StatusValues, n \in {NULL, "name"}, e \in {NULL, "Timeout"} :
          DbUpdateStatus(u, st, n, e)
    \/ DbResetErrors
    \/ \E st \in StatusValues, l \in Limits : DbGetProfilesByStatus(st, l)

StoreSpec == StoreInit /\ [][StoreNext]_vars

\* ------------------------------------------------------------ db.py, concurrent callers
\* Several processes call increment_daily_counter on the same progress.db.
\* A statement that writes begins a transaction and takes SQLite's write
\* lock; commit() publishes the change and releases the lock.
counterUnchanged == <<deployment, profiles, platform, crashes, cliVars, webVars, last_call,
                     server, runs>>

\* UPDATE daily_counters SET <type> = <type> + 1 WHERE date = day: a date
\* without a row matches nothing.
update_daily_counter(counters, day, counter_type) ==
    IF day \in DOMAIN counters
    THEN [counters EXCEPT ![day][counter_type] = @ + 1]
    ELSE counters

\* Entry of increment_daily_counter: an invalid counter type raises
\* ValueError; otherwise _ensure_daily_row reads the date and executes
\* INSERT OR IGNORE once the write lock is free.
IncEnsureExecute(p, t) ==
    /\ callers.proc[p].pc = "idle"
    /\ callers.proc[p].calls < MaxCalls
    /\ IF t \notin CounterTypes
       THEN callers' = [callers EXCEPT !.proc[p].calls = @ + 1]
       ELSE /\ callers.lock = 0
            /\ callers' = [callers EXCEPT
                              !.lock = p,
                              !.proc[p] = [pc |-> "ensure_executed", type |-> t,
                                           day |-> today, upd_day |-> 0,
                                           calls |-> @.calls + 1]]
    /\ UNCHANGED <<daily_counters, today, counterUnchanged>>

\* _ensure_daily_row: self.conn.commit().
IncEnsureCommit(p) ==
    /\ callers.proc[p].pc = "ensure_executed"
    /\ daily_counters' = ensure_daily_row(daily_counters, callers.proc[p].day)
    /\ callers' = [callers EXCEPT !.lock = 0, !.proc[p].pc = "ensured"]
    /\ UNCHANGED <<today, counterUnchanged>>

\* increment_daily_counter reads the date again and executes the UPDATE
\* once the write lock is free.
IncUpdateExecute(p) ==
    /\ callers.proc[p].pc = "ensured"
    /\ callers.lock = 0
    /\ callers' = [callers EXCEPT !.lock = p,
                                  !.proc[p].pc = "update_executed",
                                  !.proc[p].upd_day = today]
    /\ UNCHANGED <<daily_counters, today, counterUnchanged>>

\* increment_daily_counter: self.conn.commit(), and the call returns.
IncUpdateCommit(p) ==
    /\ callers.proc[p].pc = "update_executed"
    /\ LET c == callers.proc[p]
       IN  /\ daily_counters' = update_daily_counter(daily_counters, c.upd_day, c.type)
           /\ callers' = [callers EXCEPT
                             !.lock = 0,
                             !.proc[p] = [IdleCaller EXCEPT !.calls = c.calls],
                             !.done[c.upd_day][c.type] = @ + 1,
                             !.straddled = @ \/ c.day # c.upd_day]
    /\ UNCHANGED <<today, counterUnchanged>>

\* The write lock stays with another connection beyond the busy timeout:
\* the statement raises sqlite3.OperationalError (database is locked) and
\* the call ends without having completed.
IncLocked(p) ==
    /\ callers.lock \notin {0, p}
    /\ \/ callers.proc[p].pc = "idle" /\ callers.proc[p].calls < MaxCalls
       \/ callers.proc[p].pc = "ensured"
    /\ callers' = [callers EXCEPT
                      !.proc[p] = [IdleCaller EXCEPT
                                      !.calls = IF callers.proc[p].pc = "idle"
                                                THEN callers.proc[p].calls + 1
                                                ELSE callers.proc[p].calls]]
    /\ UNCHANGED <<daily_counters, today, counterUnchanged>>

\* Midnight: date.today() moves on.
Tick ==
    /\ today < MaxDay
    /\ today' = today + 1
    /\ UNCHANGED <<daily_counters, callers, counterUnchanged>>

\* Today's counts before any of the concurrent calls.
InitialCount(d, t) ==
    IF d # 1 THEN 0
    ELSE IF t = COUNTER_CONNECTIONS THEN DAILY_CONNECTION_CAP - StartBelowCap
    ELSE DAILY_MESSAGE_CAP - StartBelowCap

CounterInit ==
    /\ Init
    /\ deployment = "cli"
    /\ \A t \in CounterTypes : get_daily_count(daily_counters, today, t) = InitialCount(today, t)

CounterNext ==
    \/ \E p \in Callers, t \in CounterArgs : IncEnsureExecute(p, t)
    \/ \E p \in Callers : IncEnsureCommit(p)
    \/ \E p \in Callers : IncUpdateExecute(p)
    \/ \E p \in Callers : IncUpdateCommit(p)
    \/ \E p \in Callers : IncLocked(p)
    \/ Tick

CounterSpec == CounterInit /\ [][CounterNext]_vars

\* ------------------------------------------------------------ linkedin_bot.py, the note
\* A template is a sequence of characters and replacement fields; a first
\* name is a sequence of characters.
FIRST_NAME_FIELD == "{first_name}"
OTHER_FIELD      == "{company}"

HeadChar(j) == IF j % 2 = 0 THEN "a" ELSE "b"

\* Templates: text up to and around the limit, the first-name field, some
\* more text; the empty template; one without a field; one with the field
\* twice; one with a field format() is given no value for.
HeadLens == {0, 1} \cup ((NOTE_LIMIT - NearLimit)..NOTE_LIMIT)

Templates ==
    { [j \in 1..h |-> HeadChar(j)] \o <<FIRST_NAME_FIELD>> \o [j \in 1..t |-> "t"] :
          h \in HeadLens, t \in 0..MaxTailLen }
    \cup { <<>>,
           [j \in 1..(NOTE_LIMIT + 1) |-> HeadChar(j)],
           <<FIRST_NAME_FIELD>> \o [j \in 1..(NOTE_KEPT + 1) |-> HeadChar(j)]
               \o <<FIRST_NAME_FIELD>>,
           <<"H", "i", " ", FIRST_NAME_FIELD, " ", OTHER_FIELD>> }

FirstNames == { [j \in 1..n |-> "n"] : n \in 1..MaxNameLen }

\* note_template.format(first_name=first_name) raises KeyError for a field
\* it has no value for.
format_raises(template) == \E k \in 1..Len(template) : template[k] = OTHER_FIELD

\* note_template.format(first_name=first_name): every first-name field is
\* replaced by the name, the text around it is kept (evaluated by halves to
\* keep the recursion shallow).
RECURSIVE format_template(_, _)
format_template(template, first_name) ==
    IF template = <<>> THEN <<>>
    ELSE IF Len(template) = 1
    THEN (IF template[1] = FIRST_NAME_FIELD THEN first_name ELSE template)
    ELSE LET half == Len(template) \div 2
         IN  format_template(SubSeq(template, 1, half), first_name)
             \o format_template(SubSeq(template, half + 1, Len(template)), first_name)

\* Faulty variant of personalized_note: the limit's worth of characters is
\* kept in front of the dots.
personalized_note_keeps_limit(template, first_name) ==
    LET note == format_template(template, first_name)
    IN  IF Len(note) > NOTE_LIMIT
        THEN SubSeq(note, 1, NOTE_LIMIT) \o <<".", ".", ".">>
        ELSE note

\* personalized_note: the formatted template, cut to [:297] + "..." when it
\* is longer than 300 characters.
personalized_note(template, first_name) ==
    LET note == format_template(template, first_name)
    IN  IF Len(note) > NOTE_LIMIT
        THEN SubSeq(note, 1, NOTE_KEPT) \o <<".", ".", ".">>
        ELSE note

\* What step 4 of send_connection_request hands to _handle_connection_modal:
\* nothing for an empty template (sent without a note), nothing when
\* format() raises (the call returns "error"), else the personalized note.
connection_note(template, first_name) ==
    IF template = <<>> \/ format_raises(template)
    THEN [entered |-> FALSE, text |-> <<>>]
    ELSE [entered |-> TRUE, text |-> personalized_note(template, first_name)]

NoteArgs(template, first_name) ==
    [op |-> "send_connection_request", repeated |-> FALSE,
     template |-> template, first_name |-> first_name]

\* send_connection_request has clicked Connect: step 4 builds the note and
\* enters it.
EnterNote ==
    /\ last_call.op = "send_connection_request"
    /\ last_call' = [op |-> "handle_connection_modal", repeated |-> FALSE,
                     template |-> last_call.template,
                     first_name |-> last_call.first_name,
                     note |-> connection_note(last_call.template, last_call.first_name)]
    /\ UNCHANGED <<profiles, storeUnchanged>>

NoteInit ==
    /\ InitProgram
    /\ deployment = "cli"
    /\ get_daily_count(daily_counters, today, COUNTER_CONNECTIONS)
          = DAILY_CONNECTION_CAP - StartBelowCap
    /\ \E template \in Templates, first_name \in FirstNames :
          last_call = NoteArgs(template, first_name)

NoteNext == EnterNote

NoteSpec == NoteInit /\ [][NoteNext]_vars

\* ------------------------------------------------------------ web/worker.py, start_job
\* start_job called from the request threads of one server process, for one
\* job id.  _run_job is seen from outside: the thread is alive until it
\* returns.
startUnchanged == <<deployment, storeVars, today, platform, crashes, cliVars, webVars,
                    last_call, callers, runs>>

\* Thread.is_alive(): started and not yet finished.
is_alive(threads, t) == threads[t] = "alive"

\* job_id in _running_jobs and _running_jobs[job_id].is_alive()
already_running(srv) == srv.registry # 0 /\ is_alive(srv.thread, srv.registry)

\* Thread objects created so far.
ThreadsCreated(srv) == Cardinality({t \in WorkerThreads : srv.thread[t] # "none"})

\* A start request enters start_job and evaluates the guard: return when a
\* registered thread is alive.
StartJobCheck(r) ==
    /\ server.req[r].pc = "idle"
    /\ ThreadsCreated(server) < MaxWorkerThreads
    /\ server' = [server EXCEPT
                     !.req[r].pc = IF already_running(server) THEN "idle" ELSE "checked"]
    /\ UNCHANGED startUnchanged

\* t = Thread(target=_run_job, ...); _running_jobs[job_id] = t
StartJobRegister(r) ==
    /\ server.req[r].pc = "checked"
    /\ LET t == ThreadsCreated(server) + 1
       IN  server' = [server EXCEPT !.req[r] = [pc |-> "registered", t |-> t],
                                    !.registry = t,
                                    !.thread[t] = "created"]
    /\ UNCHANGED startUnchanged

\* t.start()
StartJobStart(r) ==
    /\ server.req[r].pc = "registered"
    /\ server' = [server EXCEPT !.thread[server.req[r].t] = "alive",
                                !.req[r] = [pc |-> "idle", t |-> 0]]
    /\ UNCHANGED startUnchanged

\* _run_job returns: the thread is no longer alive.
WorkerReturns(t) ==
    /\ server.thread[t] = "alive"
    /\ server' = [server EXCEPT !.thread[t] = "exited"]
    /\ UNCHANGED startUnchanged

StartInit ==
    /\ Init
    /\ deployment = "web"

StartNext ==
    \/ \E r \in RequestThreads : StartJobCheck(r)
    \/ \E r \in RequestThreads : StartJobRegister(r)
    \/ \E r \in RequestThreads : StartJobStart(r)
    \/ \E t \in WorkerThreads : WorkerReturns(t)

StartSpec == StartInit /\ [][StartNext]_vars

\* ------------------------------------------------------------ main.py, concurrent runs
\* Several CLI processes (run_connect, run_message) at the same time on one
\* store.  Each checks the cap before it starts and at the head of every
\* iteration, acts, commits the status and then commits the increment.
runsUnchanged == <<deployment, profiles, today, platform, crashes, cliVars, webVars,
                   last_call, callers, server>>

DailyCap(t) == IF t = COUNTER_CONNECTIONS THEN DAILY_CONNECTION_CAP ELSE DAILY_MESSAGE_CAP

\* Sizes of the batch get_pending_profiles / get_accepted_profiles return
\* for limit = remaining_today (a limit of 0 or less does not limit).
batch_sizes(limit) ==
    IF limit > 0 /\ limit < MaxRunTargets THEN 1..limit ELSE 1..MaxRunTargets

\* Faulty variant of run_continues: the cap is checked before the run only.
run_continues_unchecked(left, reached) == left > 0

\* Head of the loop of a run: targets are left and the cap is not reached.
run_continues(left, reached) == left > 0 /\ ~reached

\* Start of a run up to its loop: the cap check, then the batch.
RunBegin(r, t) ==
    /\ runs.proc[r].pc = "idle"
    /\ IF is_daily_cap_reached(daily_counters, today, t)
       THEN runs' = [runs EXCEPT !.proc[r] = [IdleRun EXCEPT !.pc = "done", !.type = t]]
       ELSE \E n \in batch_sizes(DailyCap(t) - get_daily_count(daily_counters, today, t)) :
              runs' = [runs EXCEPT !.proc[r] = [IdleRun EXCEPT !.pc = "loop", !.type = t,
                                                               !.left = n]]
    /\ UNCHANGED <<daily_counters, runsUnchanged>>

RunLoopHead(r) ==
    LET p == runs.proc[r]
    IN  /\ p.pc = "loop"
        /\ runs' = [runs EXCEPT !.proc[r].pc =
                       IF run_continues(p.left,
                             is_daily_cap_reached(daily_counters, today, p.type))
                       THEN "act" ELSE "done"]
        /\ UNCHANGED <<daily_counters, runsUnchanged>>

\* The bot call: the invite or message is sent, or the target ends in
\* another branch (no increment).
RunAct(r) ==
    LET p == runs.proc[r]
    IN  /\ p.pc = "act"
        /\ \E was_sent \in BOOLEAN :
             runs' = IF was_sent THEN [runs EXCEPT !.proc[r].pc = "write"]
                     ELSE [runs EXCEPT !.proc[r].pc = "loop", !.proc[r].left = @ - 1]
        /\ UNCHANGED <<daily_counters, runsUnchanged>>

\* db.update_status(url, STATUS_REQUEST_SENT / STATUS_MESSAGED), committed.
RunWriteStatus(r) ==
    LET p == runs.proc[r]
    IN  /\ p.pc = "write"
        /\ runs' = [runs EXCEPT !.proc[r].pc = "incr", !.written[p.type] = @ + 1]
        /\ UNCHANGED <<daily_counters, runsUnchanged>>

\* db.increment_daily_counter(...), committed; end of the iteration.
RunIncrement(r) ==
    LET p == runs.proc[r]
    IN  /\ p.pc = "incr"
        /\ daily_counters' = increment_daily_counter(daily_counters, today, p.type)
        /\ runs' = [runs EXCEPT !.proc[r].pc = "loop", !.proc[r].left = @ - 1]
        /\ UNCHANGED runsUnchanged

\* The process is killed where it stands.
RunKilled(r) ==
    LET p == runs.proc[r]
    IN  /\ p.pc \in {"loop", "act", "write", "incr"}
        /\ runs' = [runs EXCEPT !.proc[r].pc = "killed", !.proc[r].at = p.pc]
        /\ UNCHANGED <<daily_counters, runsUnchanged>>

\* Today's count before the first of the concurrent runs.
RunsInitialCount(t) == DailyCap(t) - RunsBelowCap

RunsInit ==
    /\ InitProgramFrom({RunsBelowCap})
    /\ deployment = "cli"
    /\ last_call = NoCall

RunsNext ==
    \/ \E r \in Runs, t \in CounterTypes : RunBegin(r, t)
    \/ \E r \in Runs : RunLoopHead(r)
    \/ \E r \in Runs : RunAct(r)
    \/ \E r \in Runs : RunWriteStatus(r)
    \/ \E r \in Runs : RunIncrement(r)
    \/ \E r \in Runs : RunKilled(r)

RunsSpec == RunsInit /\ [][RunsNext]_vars

\* ------------------------------------------------------------ properties
ConnCount == get_daily_count(daily_counters, today, COUNTER_CONNECTIONS)
MsgCount  == get_daily_count(daily_counters, today, COUNTER_MESSAGES)

\* The step is taken by the running CLI process itself and moves it on
\* (not a kill, a signal or a move of the environment).
ProcessStep == pc' # pc /\ crashes' = crashes

\* C1: in a CLI run started with today's counter at or below the configured
\* daily cap, the counter never exceeds the cap; is_daily_cap_reached is
\* true exactly when count >= cap; and no invite (message) is attempted
\* while the connections (messages) counter is at the cap.
C1_CounterNeverExceedsCap ==
    /\ ConnCount <= DAILY_CONNECTION_CAP
    /\ MsgCount <= DAILY_MESSAGE_CAP
    /\ is_daily_cap_reached(daily_counters, today, COUNTER_CONNECTIONS)
          <=> (ConnCount >= DAILY_CONNECTION_CAP)
    /\ is_daily_cap_reached(daily_counters, today, COUNTER_MESSAGES)
          <=> (MsgCount >= DAILY_MESSAGE_CAP)
    /\ pc \in {"c_act", "c_record"} => ConnCount < DAILY_CONNECTION_CAP
    /\ pc \in {"m_act", "m_record"} => MsgCount < DAILY_MESSAGE_CAP

\* C1 witness: a real connect run that recorded an invite, thereby brought
\* the counter to the cap, and left the loop with a target still to go.
C1_Witness ==
    /\ pc = "c_finish" /\ ~dry_run /\ ~interrupted
    /\ sent = 1 /\ i = 2 /\ i <= Len(batch)
    /\ ConnCount = DAILY_CONNECTION_CAP
    /\ Row(profiles, batch[1]).status = STATUS_REQUEST_SENT
    /\ Row(profiles, batch[2]).status = STATUS_PENDING

\* The status changes the transition tables allow.
AllowedTransitions ==
    { <<STATUS_PENDING, STATUS_REQUEST_SENT>>, <<STATUS_PENDING, STATUS_CONNECTED>>,
      <<STATUS_PENDING, STATUS_SKIPPED>>, <<STATUS_PENDING, STATUS_ERROR>>,
      <<STATUS_REQUEST_SENT, STATUS_MESSAGED>>, <<STATUS_REQUEST_SENT, STATUS_ERROR>>,
      <<STATUS_ERROR, STATUS_PENDING>> }

C3_AtMostOnce ==
    deployment = "cli" =>
        \A u \in Urls : platform[u].invites <= 1 /\ platform[u].messages <= 1

\* C4: when send_connection_request reports the platform's invitation limit
\* on the current target, the run stops: the store is left exactly as it
\* was (earlier targets keep their statuses, the current one stays PENDING),
\* no counter is incremented, no tally (errors included) changes, and from
\* there the run only returns, without touching store or platform.
C4_RateLimitStopsRun ==
    [][ /\ (pc = "c_record" /\ status = "cap_reached" /\ ProcessStep) =>
              /\ pc' = "c_finish"
              /\ profiles' = profiles
              /\ Row(profiles', batch[i]).status = STATUS_PENDING
              /\ daily_counters' = daily_counters
              /\ UNCHANGED <<statVars, platform, i, batch>>
        /\ (pc = "c_finish" /\ ProcessStep) =>
              /\ pc' \in {"exit", "m_begin"}
              /\ UNCHANGED <<storeVars, platform, statVars>>
      ]_vars

\* C4 witness: the limit was signalled on the second target of a batch,
\* after the first was recorded as skipped or error; the run is leaving.
C4_Witness ==
    /\ pc = "c_finish" /\ ~dry_run /\ ~interrupted
    /\ i = 2 /\ Len(batch) = 2 /\ processed = 1 /\ sent = 0
    /\ ConnCount < DAILY_CONNECTION_CAP
    /\ Row(profiles, batch[1]).status \in {STATUS_ERROR, STATUS_SKIPPED}
    /\ Row(profiles, batch[2]).status = STATUS_PENDING

\* C5 (does not hold): no step of a dry run changes the target store or the
\* daily counters.
C5_DryRunLeavesStore ==
    [][ (dry_run /\ pc # "idle") => UNCHANGED storeVars ]_vars

C8_SessionExpiryStopsRun ==
    ~(expiredAt > 0 /\ pc \in {"c_record", "m_record"} /\ i > expiredAt)

\* C9: a browser session is open only inside the loop section of a run:
\* whenever run_connect or run_message has returned (on any path) or no
\* run is active, and whenever the web worker thread has ended, the
\* session that was started is closed.
C9_SessionClosedOnReturn ==
    /\ bot = "open" =>
          pc \in {"c_loop", "c_act", "c_record", "c_delay", "c_finish",
                  "m_loop", "m_act", "m_record", "m_delay", "m_finish"}
    /\ wbot = "open" => wpc \in {"w_loop", "w_process", "w_finish", "w_close"}
    /\ pc \in {"c_loop", "c_act", "c_record", "c_delay", "c_finish",
               "m_loop", "m_act", "m_record", "m_delay", "m_finish"} => bot = "open"
    /\ wpc \in {"w_loop", "w_process", "w_finish", "w_close"} => wbot = "open"

\* C9 witness: a run whose login failed has returned with the session it
\* started closed.
C9_Witness ==
    /\ pc = "exit" /\ bot = "closed" /\ ~summaryPrinted /\ batch # <<>>

\* C10 (does not hold): a CLI run that got as far as starting a session has
\* printed the session summary when it returns.
C10_SummaryOnReturn ==
    /\ (pc = "exit" /\ bot # "none") => summaryPrinted
    /\ (pc = "m_begin" /\ bot # "none") => summaryPrinted

\* The positions of run_connect and run_message between session start and
\* return.
ConnectRunPcs == {"c_start", "c_loop", "c_act", "c_record", "c_delay", "c_finish"}
MessageRunPcs == {"m_start", "m_loop", "m_act", "m_record", "m_delay", "m_finish"}

\* C11: a Ctrl+C received while a target is being processed does not cut
\* the target short: the bot call returns, its outcome is recorded as it
\* would be without the signal, and the flag stays set; at the next loop
\* head the run leaves the loop without starting another target; from
\* there it closes the session, and nothing already written is changed.
C11_CancelAtTargetBoundary ==
    [][ /\ (interrupted /\ pc = "c_act" /\ ProcessStep) =>
              (pc' = "c_record" /\ status' # NULL)
        /\ (interrupted /\ pc = "m_act" /\ ProcessStep) =>
              (pc' = "m_record" /\ status' # NULL)
        /\ (interrupted /\ pc = "c_record" /\ ProcessStep /\ ~dry_run) =>
              Row(profiles', batch[i]).status = connect_branch(status).write
        /\ (interrupted /\ pc = "m_record" /\ ProcessStep /\ ~dry_run) =>
              LET w == message_branch(status).write
              IN  Row(profiles', batch[i]).status =
                     IF w = NULL THEN Row(profiles, batch[i]).status ELSE w
        /\ (interrupted /\ pc \in {"c_delay", "m_delay"} /\ ProcessStep) =>
              /\ pc' = IF pc = "c_delay" THEN "c_loop" ELSE "m_loop"
              /\ UNCHANGED <<storeVars, platform>>
        /\ (interrupted /\ pc \in {"c_loop", "m_loop"} /\ ProcessStep) =>
              /\ pc' = IF pc = "c_loop" THEN "c_finish" ELSE "m_finish"
              /\ UNCHANGED <<storeVars, platform>>
        /\ (pc \in {"c_finish", "m_finish"} /\ ProcessStep) =>
              /\ bot' = "closed"
              /\ UNCHANGED <<storeVars, platform>>
        /\ (interrupted /\ pc \in ConnectRunPcs /\ pc' \in ConnectRunPcs) => interrupted'
        /\ (interrupted /\ pc \in MessageRunPcs /\ pc' \in MessageRunPcs) => interrupted'
      ]_vars

\* C11 witness: a real connect run of two targets was interrupted, recorded
\* the first target, started no second one and has closed its session.
C11_Witness ==
    /\ pc = "exit" /\ interrupted /\ ~dry_run /\ bot = "closed"
    /\ Len(batch) = 2 /\ i = 2 /\ processed = 1 /\ skipped = 1
    /\ Row(profiles, batch[1]).status = STATUS_SKIPPED
    /\ Row(profiles, batch[2]).status = STATUS_PENDING
    /\ platform[batch[2]].invites = 0

\* C12 (does not hold): once a loop of a CLI invocation has observed the
\* cancellation signal, no target is started in the rest of that
\* invocation, the message phase of mode both included.
C12_NoTargetAfterCancel ==
    [][ interrupt_seen => pc' \notin {"c_act", "m_act"} ]_vars

\* C20 (does not hold): the batch a run fetches holds at most
\* remaining = daily_cap - today's count targets, none when remaining <= 0,
\* daily_cap being the override when given and the configured cap otherwise.
C20_BatchWithinRemaining ==
    [][ /\ (pc = "c_begin" /\ pc' = "c_start") =>
              LET remaining == effective_cap(cap, DAILY_CONNECTION_CAP) - ConnCount
              IN  Len(batch') <= (IF remaining > 0 THEN remaining ELSE 0)
        /\ (pc = "m_begin" /\ pc' = "m_start") =>
              LET remaining == effective_cap(cap, DAILY_MESSAGE_CAP) - MsgCount
              IN  Len(batch') <= (IF remaining > 0 THEN remaining ELSE 0)
      ]_vars

NoDuplicateUrls(profs) ==
    \A j, k \in 1..Len(profs) : j # k => profs[j].url # profs[k].url

\* C13: for every sequence of import_urls calls (duplicates against the
\* store and inside one list), no URL is stored twice, and each call
\* returns imported + skipped = total = length of the list given, with
\* imported the number of rows the call added.
C13_ImportCountsAndUniqueness ==
    [][ \A f \in Files : DbImportUrls(f) =>
          /\ NoDuplicateUrls(profiles')
          /\ last_call'.result.imported + last_call'.result.skipped
                = last_call'.result.total
          /\ last_call'.result.total = Len(f)
          /\ last_call'.result.imported = Len(profiles') - Len(profiles)
      ]_vars

\* C13 witness: a list naming the same new URL twice was imported: one row
\* added, one entry skipped.
C13_Witness ==
    /\ last_call.op = "import_urls"
    /\ last_call.urls = <<1, 1>>
    /\ last_call.result = [imported |-> 1, skipped |-> 1, total |-> 2]
    /\ Len(profiles) = 1

\* C14: every row import_urls adds is PENDING with no name and no error
\* message, and every row stored before the call is left exactly as it was.
C14_ImportFrame ==
    [][ \A f \in Files : DbImportUrls(f) =>
          /\ Len(profiles') >= Len(profiles)
          /\ \A k \in 1..Len(profiles) : profiles'[k] = profiles[k]
          /\ \A k \in (Len(profiles) + 1)..Len(profiles') :
                /\ profiles'[k].status = STATUS_PENDING
                /\ profiles'[k].name = NULL
                /\ profiles'[k].error_msg = NULL
      ]_vars

\* C14 witness: a list with a stored, already messaged URL and a new URL was
\* imported: the stored row kept status and name, the new row is PENDING.
C14_Witness ==
    /\ last_call.op = "import_urls"
    /\ last_call.urls = <<1, 2>>
    /\ last_call.result = [imported |-> 1, skipped |-> 1, total |-> 2]
    /\ Len(profiles) = 2
    /\ profiles[1].url = 1 /\ profiles[1].status = STATUS_MESSAGED
    /\ profiles[1].name = "name"
    /\ profiles[2].url = 2 /\ profiles[2].status = STATUS_PENDING

\* C15 (does not hold): in every state of the store reached by import_urls,
\* update_status and reset_errors calls, a row has an error message only if
\* its status is ERROR.
C15_ErrorMsgOnlyOnError ==
    \A k \in 1..Len(profiles) :
        profiles[k].error_msg # NULL => profiles[k].status = STATUS_ERROR

\* C16 (does not hold): update_status called with a URL that is not stored
\* fails with a not-found error.
C16_UnknownUrlFails ==
    (last_call.op = "update_status" /\ ~last_call.known) => last_call.raised

\* C17: reset_errors returns the number of rows whose status was ERROR,
\* leaves exactly those rows PENDING with no error message (url and name
\* kept), and changes no other row and no daily counter.
C17_ResetErrors ==
    [][ DbResetErrors =>
          /\ last_call'.result =
                Cardinality({k \in 1..Len(profiles) : profiles[k].status = STATUS_ERROR})
          /\ Len(profiles') = Len(profiles)
          /\ \A k \in 1..Len(profiles) :
                IF profiles[k].status = STATUS_ERROR
                THEN /\ profiles'[k].status = STATUS_PENDING
                     /\ profiles'[k].error_msg = NULL
                     /\ profiles'[k].url = profiles[k].url
                     /\ profiles'[k].name = profiles[k].name
                ELSE profiles'[k] = profiles[k]
          /\ daily_counters' = daily_counters
      ]_vars

\* C17 witness: reset_errors has returned 1 on a store of an ERROR row and
\* a REQUEST_SENT row; the first is now PENDING without message, the second
\* is as before.
C17_Witness ==
    /\ last_call.op = "reset_errors" /\ ~last_call.repeated
    /\ last_call.result = 1
    /\ Len(profiles) = 2
    /\ profiles[1].status = STATUS_PENDING /\ profiles[1].error_msg = NULL
    /\ profiles[2].status = STATUS_REQUEST_SENT

\* C18: a reset_errors call made directly after a reset_errors call returns
\* 0 and changes no row.
C18_ResetErrorsIdempotent ==
    [][ (last_call.op = "reset_errors" /\ DbResetErrors) =>
          /\ last_call'.result = 0
          /\ profiles' = profiles
      ]_vars

\* C18 witness: reset_errors was called twice in a row on a store of two
\* rows; the second call has returned 0.
C18_Witness ==
    /\ last_call.op = "reset_errors" /\ last_call.repeated
    /\ last_call.result = 0
    /\ Len(profiles) = 2
    /\ profiles[1].status = STATUS_PENDING /\ profiles[2].status = STATUS_PENDING

\* The URLs of the rows with status st, in insertion (id) order: the j-th
\* is the URL of the row with exactly j - 1 such rows before it.
RowsWithStatus(st) == {k \in 1..Len(profiles) : profiles[k].status = st}

NthWithStatus(st, j) ==
    CHOOSE k \in RowsWithStatus(st) :
        Cardinality({m \in RowsWithStatus(st) : m < k}) = j - 1

\* C19: get_profiles_by_status (get_pending_profiles is the same query)
\* returns exactly the rows with the requested status in insertion order:
\* all of them for limit 0, the first min(n, count) for limit n > 0.
C19_QueryByStatus ==
    last_call.op = "get_profiles_by_status" =>
        LET st    == last_call.status
            count == Cardinality(RowsWithStatus(st))
            n     == IF last_call.limit = 0 \/ last_call.limit > count THEN count
                     ELSE last_call.limit
        IN  /\ Len(last_call.result) = n
            /\ \A j \in 1..n :
                  last_call.result[j] = profiles[NthWithStatus(st, j)].url

\* C19 witness: two PENDING rows are stored and a query for PENDING with
\* limit 1 has returned the first of them only.
C19_Witness ==
    /\ last_call.op = "get_profiles_by_status"
    /\ last_call.status = STATUS_PENDING /\ last_call.limit = 1
    /\ Len(profiles) = 2
    /\ profiles[1].status = STATUS_PENDING /\ profiles[2].status = STATUS_PENDING
    /\ last_call.result = <<1>>

\* The guard of the pause at the end of an iteration (k is the 1-based
\* position in a batch of n): another target follows, no interrupt is
\* pending, and the run is a real one.  The pause itself is bot.long_pause,
\* time.sleep(delay_override) or bot.profile_delay.
pacing_delay(k, n, intr, dry) == k < n /\ ~intr /\ ~dry

\* C21 (does not hold): once an increment has brought today's counter to
\* the cap, the run stops at once: the iteration that recorded it ends
\* without a pacing delay, and no further target is visited.
C21_StopsAtOnceAtCap ==
    [][ /\ ( /\ pc = "c_delay" /\ ProcessStep
             /\ is_daily_cap_reached(daily_counters, today, COUNTER_CONNECTIONS) )
              => ~pacing_delay(i, Len(batch), interrupted, dry_run)
        /\ ( /\ pc = "m_delay" /\ ProcessStep
             /\ is_daily_cap_reached(daily_counters, today, COUNTER_MESSAGES) )
              => ~pacing_delay(i, Len(batch), interrupted, dry_run)
        /\ ( /\ pc = "c_loop"
             /\ is_daily_cap_reached(daily_counters, today, COUNTER_CONNECTIONS) )
              => pc' # "c_act"
        /\ ( /\ pc = "m_loop"
             /\ is_daily_cap_reached(daily_counters, today, COUNTER_MESSAGES) )
              => pc' # "m_act"
      ]_vars

\* C22 (does not hold): in a CLI run started with a cap override c > 0, c is
\* the daily ceiling of the run: with today's counter at or above c the run
\* fetches no batch and starts no target, and with the counter below c the
\* cap check the run evaluates is not true.  (The override is still at hand
\* inside the connect loop in mode both only, where main() passes it on to
\* run_message.)
C22_OverrideIsCeiling ==
    [][ /\ (pc = "c_begin" /\ cap > 0 /\ ProcessStep) =>
              /\ ConnCount >= cap => pc' # "c_start"
              /\ ConnCount < cap =>
                    ~is_daily_cap_reached(daily_counters, today, COUNTER_CONNECTIONS)
        /\ (pc = "m_begin" /\ cap > 0 /\ ProcessStep) =>
              /\ MsgCount >= cap => pc' # "m_start"
              /\ MsgCount < cap =>
                    ~is_daily_cap_reached(daily_counters, today, COUNTER_MESSAGES)
        /\ (pc = "c_loop" /\ mode = "both" /\ cap > 0 /\ ConnCount >= cap) =>
              pc' # "c_act"
      ]_vars

\* The connection states for which send_connection_request returns before
\* the Connect click.
NoInviteStates == {"already_connected", "already_pending", "no_connect_button"}

\* C23: in a real connect run, a PENDING target detected as already
\* connected is recorded as CONNECTED, one detected as already pending as
\* REQUEST_SENT, one without a Connect option as SKIPPED; in all three
\* cases the bot call attempts no invite and leaves the platform as it is,
\* and recording changes neither a daily counter, nor the sent tally, nor
\* any other row.
C23_DetectedStateHandling ==
    [][ /\ (pc = "c_act" /\ ProcessStep /\ obs'.state \in NoInviteStates) =>
              /\ ~obs'.attempted
              /\ platform' = platform
        /\ (pc = "c_record" /\ ~dry_run /\ ProcessStep /\ obs.state \in NoInviteStates) =>
              /\ Row(profiles, batch[i]).status = STATUS_PENDING
              /\ Row(profiles', batch[i]).status =
                    CASE obs.state = "already_connected" -> STATUS_CONNECTED
                      [] obs.state = "already_pending"   -> STATUS_REQUEST_SENT
                      [] OTHER                           -> STATUS_SKIPPED
              /\ \A k \in 1..Len(profiles) :
                    profiles[k].url # batch[i] => profiles'[k] = profiles[k]
              /\ daily_counters' = daily_counters
              /\ sent' = sent /\ skipped' = skipped + 1
      ]_vars

\* C23 witness: a real connect run has recorded one target, whose earlier
\* invitation had never been recorded, as REQUEST_SENT and one without a
\* Connect option as SKIPPED, and the connections counter is where it
\* started.
C23_Witness ==
    /\ pc = "c_delay" /\ ~dry_run /\ i = 2 /\ sent = 0 /\ skipped = 2
    /\ Row(profiles, batch[1]).status = STATUS_REQUEST_SENT
    /\ Row(profiles, batch[2]).status = STATUS_SKIPPED
    /\ platform[batch[1]].invites = 1 /\ platform[batch[2]].invites = 0
    /\ ConnCount = DAILY_CONNECTION_CAP - StartBelowCap

\* C24: with several processes calling increment_daily_counter on the same
\* store, every call that returns without the date having changed inside it
\* raises the counter of its type for its date by exactly 1 and leaves
\* every other counter as it is; no step lowers a counter or removes a
\* date's row (the table holds one row per date); and as long as no call
\* straddled a date change, each counter equals its initial value plus the
\* number of calls completed for it (no lost update).
C24_IncrementExact ==
    [][ /\ \A p \in Callers :
              ( /\ callers.proc[p].pc = "update_executed"
                /\ callers'.proc[p].pc = "idle"
                /\ callers.proc[p].day = callers.proc[p].upd_day ) =>
                  LET d == callers.proc[p].day
                      t == callers.proc[p].type
                  IN  /\ get_daily_count(daily_counters', d, t)
                            = get_daily_count(daily_counters, d, t) + 1
                      /\ \A d2 \in Days, t2 \in CounterTypes :
                            <<d2, t2>> # <<d, t>> =>
                                get_daily_count(daily_counters', d2, t2)
                                    = get_daily_count(daily_counters, d2, t2)
        /\ \A d \in Days, t \in CounterTypes :
              get_daily_count(daily_counters', d, t) >= get_daily_count(daily_counters, d, t)
        /\ DOMAIN daily_counters \subseteq DOMAIN daily_counters'
        /\ ~callers'.straddled =>
              \A d \in Days, t \in CounterTypes :
                 get_daily_count(daily_counters', d, t)
                    = InitialCount(d, t) + callers'.done[d][t]
      ]_vars

\* C24 witness: two callers are inside the method for the same counter at
\* once, one between its two statements (in its second call, the first has
\* returned and was counted) and one holding the write lock with its UPDATE
\* executed.
C24_Witness ==
    /\ callers.proc[1].pc = "ensured" /\ callers.proc[1].calls = 2
    /\ callers.proc[2].pc = "update_executed" /\ callers.lock = 2
    /\ \A p \in Callers : callers.proc[p].type = COUNTER_CONNECTIONS
    /\ callers.done[1][COUNTER_CONNECTIONS] = 1 /\ ~callers.straddled
    /\ ConnCount = DAILY_CONNECTION_CAP - StartBelowCap + 1

\* C25: in a message run, for a REQUEST_SENT target on which the Message
\* button is not found, the bot call attempts no message and leaves the
\* platform as it is; recording it writes nothing to the store, leaves the
\* daily counters and the other tallies as they are and adds one to
\* still_pending; the target is still REQUEST_SENT and is returned again by
\* get_accepted_profiles.
C25_NotConnectedStaysEligible ==
    [][ /\ (pc = "m_act" /\ ProcessStep /\ obs'.state = "no_message_button") =>
              /\ ~obs'.attempted
              /\ platform' = platform
              /\ status' = "not_connected"
        /\ (pc = "m_record" /\ ProcessStep /\ obs.state = "no_message_button") =>
              /\ Row(profiles, batch[i]).status = STATUS_REQUEST_SENT
              /\ profiles' = profiles
              /\ daily_counters' = daily_counters
              /\ still_pending' = still_pending + 1
              /\ processed' = processed + 1
              /\ UNCHANGED <<sent, skipped, errors>>
              /\ LET again == get_accepted_profiles(profiles', 0)
                 IN  \E k \in 1..Len(again) : again[k] = batch[i]
      ]_vars

\* C25 witness: a real message run of one target found no Message button,
\* tallied the target as still pending and is leaving with the store and
\* the messages counter as they were.
C25_Witness ==
    /\ pc = "m_finish" /\ ~dry_run /\ Len(batch) = 1
    /\ processed = 1 /\ still_pending = 1 /\ sent = 0 /\ skipped = 0 /\ errors = 0
    /\ Row(profiles, batch[1]).status = STATUS_REQUEST_SENT
    /\ platform[batch[1]].messages = 0
    /\ MsgCount = DAILY_MESSAGE_CAP - StartBelowCap

\* C26: the note entered in the invitation dialog has at most 300
\* characters for every template and first name: a formatted note of at
\* most 300 characters is entered as it is, a longer one as its first 297
\* characters followed by three dots (300 characters in all).
C26_NoteWithinLimit ==
    (last_call.op = "handle_connection_modal" /\ last_call.note.entered) =>
        LET full == format_template(last_call.template, last_call.first_name)
            note == last_call.note.text
        IN  /\ Len(note) <= 300
            /\ Len(full) <= 300 => note = full
            /\ Len(full) > 300 =>
                  /\ Len(note) = 300
                  /\ SubSeq(note, 1, 297) = SubSeq(full, 1, 297)
                  /\ SubSeq(note, 298, 300) = <<".", ".", ".">>

\* C26 witness: a note that came to 301 characters, one more than the
\* limit, was entered with 300.
C26_Witness ==
    /\ last_call.op = "handle_connection_modal"
    /\ Len(format_template(last_call.template, last_call.first_name)) = 301
    /\ last_call.note.entered
    /\ Len(last_call.note.text) = 300

\* C27 (does not hold): at no time are two worker threads of the same job
\* alive, whatever the interleaving of the start requests.
C27_SingleWorker ==
    Cardinality({t \in WorkerThreads : is_alive(server.thread, t)}) <= 1

\* C28 (does not hold): a CLI run whose input is malformed starts nothing:
\* with a negative cap override, or with the template file missing, the
\* run imports nothing into the store and starts no session.  (The step
\* at which the template turns out to be missing is the one that has a
\* non-empty file, finds the cap not reached and targets to process, and
\* yet does not go on to launch the browser.)
C28_MalformedInputStartsNothing ==
    [][ /\ (pc = "c_begin" /\ ProcessStep /\ cap < 0) =>
              profiles' = profiles /\ pc' # "c_start"
        /\ (pc = "m_begin" /\ ProcessStep /\ cap < 0) =>
              profiles' = profiles /\ pc' # "m_start"
        /\ ( /\ pc = "c_begin" /\ ProcessStep /\ file # <<>>
             /\ ~is_daily_cap_reached(daily_counters, today, COUNTER_CONNECTIONS)
             /\ get_pending_profiles(profiles',
                    effective_cap(cap, DAILY_CONNECTION_CAP) - ConnCount) # <<>>
             /\ pc' # "c_start" )
              => profiles' = profiles
        /\ ( /\ pc = "m_begin" /\ ProcessStep /\ file # <<>>
             /\ ~is_daily_cap_reached(daily_counters, today, COUNTER_MESSAGES)
             /\ get_accepted_profiles(profiles',
                    effective_cap(cap, DAILY_MESSAGE_CAP) - MsgCount) # <<>>
             /\ pc' # "m_start" )
              => profiles' = profiles
      ]_vars

\* C29: a run that cannot obtain an authenticated session ends before any
\* target is observed.  CLI: when bot.start() raises or the login fails,
\* the run returns with the browser closed, and store, counters and
\* platform are as they were.  Web: without a stored session, with an
\* expired one, or when the browser does not start, the job's status
\* becomes failed, no row of the job changes and the platform is as it was.
C29_NoSessionFailsRun ==
    [][ /\ (pc = "c_start" /\ ProcessStep /\ pc' # "c_loop") =>
              /\ pc' = connect_return(mode)
              /\ bot' = "closed"
              /\ UNCHANGED <<storeVars, platform, statVars>>
        /\ (pc = "m_start" /\ ProcessStep /\ pc' # "m_loop") =>
              /\ pc' = "exit"
              /\ bot' = "closed"
              /\ UNCHANGED <<storeVars, platform, statVars>>
        /\ (JobExists /\ wpc \in {"w_begin", "w_launch"}
               /\ wpc' \notin {wpc, "w_launch", "w_loop"}) =>
              /\ wpc' = "done"
              /\ job'.status = "failed"
              /\ wbot' # "open"
              /\ jobProfiles' = jobProfiles
              /\ UNCHANGED <<storeVars, platform>>
              /\ job'.processed = job.processed /\ job'.sent = job.sent
      ]_vars

\* C29 witness: the worker of a web job launched the browser, got no
\* authenticated session and has returned: the job is failed, its rows are
\* all pending and nothing was sent.
C29_Witness ==
    /\ deployment = "web" /\ wpc = "done" /\ wbot = "closed"
    /\ job.status = "failed" /\ job.processed = 0
    /\ \A k \in 1..Len(jobProfiles) : jobProfiles[k].status = "pending"
    /\ \A u \in Urls : platform[u].invites = 0 /\ platform[u].messages = 0

\* C30 (does not hold): in a web job of mode message, the worker takes up
\* only rows whose status is request_sent, no row goes from pending straight
\* to messaged, and a row for which the Message button is not found keeps
\* its status (so that the next run of the job fetches it again).
C30_WebMessageOnlyAfterRequest ==
    [][ (deployment = "web" /\ job.mode = "message") =>
          /\ wpc' = "w_process" => jobProfiles'[wbatch'[wi']].status = "request_sent"
          /\ \A k \in 1..Len(jobProfiles) :
                /\ jobProfiles[k].status = "pending" => jobProfiles'[k].status # "messaged"
                /\ jobProfiles'[k].status = "not_connected"
                      => jobProfiles[k].status = "not_connected"
                /\ jobProfiles[k].status = "not_connected"
                      => \E j \in 1..Len(pending_job_profiles(jobProfiles)) :
                            pending_job_profiles(jobProfiles)[j] = k
      ]_vars

\* C31 (does not hold): when the rate limit is signalled while the web
\* worker invites a target, the job stops early and the row of that target
\* is left pending, so that the next run of the job fetches it again.
C31_RateLimitLeavesPending ==
    [][ (JobExists /\ wpc = "w_process" /\ wpc' = "w_finish") =>
          /\ jobProfiles'[wbatch[wi]].status = "pending"
          /\ \E j \in 1..Len(pending_job_profiles(jobProfiles')) :
                pending_job_profiles(jobProfiles')[j] = wbatch[wi]
      ]_vars

\* C32 (does not hold): once a cancel request for a running web job has
\* been accepted, the worker starts no further target, and when its thread
\* returns the job's status is cancelled, whatever start requests and
\* worker steps come in between.
C32_CancelIsFinal ==
    [][ (cancel_requested /\ JobExists /\ JobExists') =>
          /\ wpc' = "w_process" => wpc = "w_process"
          /\ (wpc # "done" /\ wpc' = "done") => job'.status = "cancelled"
      ]_vars

\* C33 (does not hold): whenever the worker thread of a web job returns,
\* the status of the job is completed, failed or cancelled, never pending
\* or running.
C33_TerminalStatusOnReturn ==
    [][ (wpc # "done" /\ wpc' = "done" /\ JobExists') =>
          job'.status \in {"completed", "failed", "cancelled"}
      ]_vars

\* C34 (does not hold): delete_job removes a job and its profile rows only
\* when no worker thread of that job is alive.
C34_NoDeleteUnderWorker ==
    [][ (JobExists /\ ~JobExists') => ~ThreadAlive ]_vars

\* C38 (does not hold): for a web job in any mode, after each target
\* job.processed = job.sent + job.skipped + job.errors and
\* job.processed <= job.total_profiles, also when the job stops early on
\* a rate limit.
C38_JobCountsAddUp ==
    (deployment = "web" /\ JobExists) =>
        /\ job.processed = job.sent + job.skipped + job.errors
        /\ job.processed <= job.total_profiles

\* C40: restarting a completed, failed or cancelled web job sets its
\* processed, sent, skipped and errors counts to 0 and moves exactly the
\* error rows back to pending with the error message cleared; a worker
\* takes up only rows whose status is pending, so a row that reached
\* request_sent, messaged or skipped keeps that status and its person is
\* not invited or messaged again.
C40_RestartRetriesOnlyErrors ==
    [][ /\ (job.status \in {"completed", "failed", "cancelled"}
              /\ job'.status = "pending") =>
              /\ job'.processed = 0 /\ job'.sent = 0
              /\ job'.skipped = 0 /\ job'.errors = 0
              /\ \A k \in 1..Len(jobProfiles) :
                    jobProfiles'[k] =
                       IF jobProfiles[k].status = "error"
                       THEN [jobProfiles[k] EXCEPT !.status = "pending",
                                                   !.error_msg = NULL]
                       ELSE jobProfiles[k]
        /\ (deployment = "web" /\ JobExists /\ wpc # "w_process"
              /\ wpc' = "w_process") =>
              jobProfiles'[wbatch'[wi']].status = "pending"
        /\ (deployment = "web" /\ JobExists') =>
              \A k \in 1..Len(jobProfiles) :
                 jobProfiles[k].status \in {"request_sent", "messaged", "skipped"} =>
                    /\ jobProfiles'[k].status = jobProfiles[k].status
                    /\ platform'[jobProfiles[k].url].invites
                          = platform[jobProfiles[k].url].invites
                    /\ platform'[jobProfiles[k].url].messages
                          = platform[jobProfiles[k].url].messages
      ]_vars

\* C40 witness: a job with a row at request_sent was restarted (its sent
\* count is 0 again, and no cancel request fell into this worker's run) and
\* the restarted worker is at a target.
C40_Witness ==
    /\ deployment = "web" /\ JobExists
    /\ wpc = "w_process" /\ ~cancel_requested
    /\ job.sent = 0 /\ job.processed = 0
    /\ \E k \in 1..Len(jobProfiles) : jobProfiles[k].status = "request_sent"
    /\ jobProfiles[wbatch[wi]].status = "pending"

\* C37: at every per-target boundary of a CLI run the tallies add up,
\* processed = sent + skipped + errors in run_connect and
\* processed = messaged + still_pending + skipped + errors in run_message
\* (sent holds `messaged` there), processed is at most the size of the
\* batch, and the target on which a run stops for the rate limit changes
\* none of the tallies.
C37_TalliesAddUp ==
    [][ /\ pc' \in {"c_loop", "c_act", "c_record", "c_delay", "c_finish"} =>
              /\ processed' = sent' + skipped' + errors'
              /\ processed' <= Len(batch')
        /\ pc' \in {"m_loop", "m_act", "m_record", "m_delay", "m_finish"} =>
              /\ processed' = sent' + still_pending' + skipped' + errors'
              /\ processed' <= Len(batch')
        /\ (pc \in {"c_record", "m_record"} /\ ProcessStep
              /\ status = "cap_reached") =>
              /\ UNCHANGED statVars
              /\ pc' \in {"c_finish", "m_finish"}
      ]_vars

\* C37 witness: a run has handled one target and stopped on the second for
\* the rate limit (not at the end of the batch, not interrupted, not at the
\* daily cap): the second target is tallied nowhere.
C37_Witness ==
    /\ pc = "c_finish" /\ i = 2 /\ i <= Len(batch) /\ ~interrupted
    /\ ~is_daily_cap_reached(daily_counters, today, COUNTER_CONNECTIONS)
    /\ processed = 1 /\ sent + skipped + errors = 1

\* Runs of counter type t that have started.
RunsStarted(t) ==
    {r \in Runs : runs.proc[r].pc # "idle" /\ runs.proc[r].type = t}

\* C35: when K runs execute at the same time on one store and counter
\* type, each checking the cap only before its own action, today's counter
\* never exceeds cap + K - 1.
C35_OvershootBounded ==
    \A t \in CounterTypes :
        Cardinality(RunsStarted(t)) >= 1 =>
            get_daily_count(daily_counters, today, t)
               <= DailyCap(t) + Cardinality(RunsStarted(t)) - 1

\* C35 witness: all the runs were past the cap check when the counter was
\* one below the cap, and each has incremented: the counter stands at
\* cap + K - 1.
C35_Witness ==
    /\ Cardinality(RunsStarted(COUNTER_CONNECTIONS)) = NumRuns
    /\ get_daily_count(daily_counters, today, COUNTER_CONNECTIONS)
          = DAILY_CONNECTION_CAP + NumRuns - 1

\* Status writes for a sent invite or message that today's counter of type
\* t does not show.
Uncounted(t) ==
    runs.written[t] - (get_daily_count(daily_counters, today, t) - RunsInitialCount(t))

\* Runs that stand between the status write and the increment.
RunsBetween(t) ==
    {r \in Runs : runs.proc[r].type = t /\ runs.proc[r].pc = "incr"}

\* Runs that were killed between the status write and the increment.
RunsKilledBetween(t) ==
    {r \in Runs : /\ runs.proc[r].type = t /\ runs.proc[r].pc = "killed"
                  /\ runs.proc[r].at = "incr"}

C39_StraddlingCallCounts ==
    [][ \A p \in Callers :
          ( /\ callers.proc[p].pc = "update_executed"
            /\ callers'.proc[p].pc = "idle"
            /\ callers.proc[p].day # callers.proc[p].upd_day ) =>
              \E d \in Days :
                 LET t == callers.proc[p].type
                 IN  /\ get_daily_count(daily_counters', d, t)
                           = get_daily_count(daily_counters, d, t) + 1
                     /\ \A d2 \in Days, t2 \in CounterTypes :
                           <<d2, t2>> # <<d, t>> =>
                               get_daily_count(daily_counters', d2, t2)
                                   = get_daily_count(daily_counters, d2, t2)
      ]_vars

====
